---- MODULE Spec2Model ----
(***************************************************************************)
(* A model of the HelloFresh recipe scraper: the fetch loop, the embedded  *)
(* data (JSON-LD) lookup, the per-field resolver get_value with its CSS    *)
(* fallbacks, the record assembly of scrape_recipe_data, and the text      *)
(* parsers of utils.py.                                                    *)
(*                                                                         *)
(* Text is a sequence of one-character strings.  " " is whitespace and     *)
(* "<>" stands for one markup tag inside a text.  Python values are tagged *)
(* records: None, str, int, float, list, dict.                             *)
(***************************************************************************)
EXTENDS Integers, Sequences, FiniteSets, TLC

VARIABLES pc, page, attempt, outcomes, sleeps, html_content, json_ld_data,
          scraped_data, result, evaluated, duration_str, minutes,
          ingredient_elements_or_strings, parsed_ingredients

vars == <<pc, page, attempt, outcomes, sleeps, html_content, json_ld_data,
          scraped_data, result, evaluated, duration_str, minutes,
          ingredient_elements_or_strings, parsed_ingredients>>

\* the variables of a call of parse_ingredient_strings_list
IngredientVars == <<ingredient_elements_or_strings, parsed_ingredients>>

-----------------------------------------------------------------------------
(* Bounds of the explored inputs *)

MaxHours == 2

MaxMinutes == 45

-----------------------------------------------------------------------------
(* Python values *)

None == [t |-> "none"]

PyStr(s) == [t |-> "str", v |-> s]

PyInt(n) == [t |-> "int", v |-> n]

\* a float, kept exact as the fraction num / den (rounding is not modelled)
PyFloat(n, d) == [t |-> "float", num |-> n, den |-> d]

PyList(l) == [t |-> "list", v |-> l]

PyDict(d) == [t |-> "dict", v |-> d]

\* a dict whose keys the program reads as text: its (key, value) items in
\* insertion order
PyItems(items) == [t |-> "dict", items |-> items]

Item(k, x) == [key |-> k, value |-> x]

\* Python truthiness: None, "", 0, 0.0, [] and {} are falsy
Truthy(x) ==
  CASE x.t = "none" -> FALSE
    [] x.t = "str" -> x.v # <<>>
    [] x.t = "int" -> x.v # 0
    [] x.t = "float" -> x.num # 0
    [] x.t = "list" -> x.v # <<>>
    [] x.t = "dict" -> IF "items" \in DOMAIN x THEN x.items # <<>> ELSE DOMAIN x.v # {}
    [] OTHER -> TRUE

-----------------------------------------------------------------------------
(* Characters and numbers *)

Digits == {"0", "1", "2", "3", "4", "5", "6", "7", "8", "9"}

DigitVal(c) ==
  CASE c = "0" -> 0 [] c = "1" -> 1 [] c = "2" -> 2 [] c = "3" -> 3
    [] c = "4" -> 4 [] c = "5" -> 5 [] c = "6" -> 6 [] c = "7" -> 7
    [] c = "8" -> 8 [] c = "9" -> 9

DigitChar(n) ==
  CASE n = 0 -> "0" [] n = 1 -> "1" [] n = 2 -> "2" [] n = 3 -> "3"
    [] n = 4 -> "4" [] n = 5 -> "5" [] n = 6 -> "6" [] n = 7 -> "7"
    [] n = 8 -> "8" [] n = 9 -> "9"

\* int("...") of a run of decimal digits
RECURSIVE ToInt(_)
ToInt(ds) ==
  IF ds = <<>> THEN 0
  ELSE 10 * ToInt(SubSeq(ds, 1, Len(ds) - 1)) + DigitVal(ds[Len(ds)])

\* str(n) of a non-negative integer
RECURSIVE ToStr(_)
ToStr(n) ==
  IF n < 10 THEN <<DigitChar(n)>>
  ELSE ToStr(n \div 10) \o <<DigitChar(n % 10)>>

UpperCase ==
  <<"A", "B", "C", "D", "E", "F", "G", "H", "I", "J", "K", "L", "M",
    "N", "O", "P", "Q", "R", "S", "T", "U", "V", "W", "X", "Y", "Z">>

LowerCase ==
  <<"a", "b", "c", "d", "e", "f", "g", "h", "i", "j", "k", "l", "m",
    "n", "o", "p", "q", "r", "s", "t", "u", "v", "w", "x", "y", "z">>

\* str.lower() of one character
Lower(c) ==
  IF \E k \in 1..Len(UpperCase) : UpperCase[k] = c
  THEN LowerCase[CHOOSE k \in 1..Len(UpperCase) : UpperCase[k] = c]
  ELSE c

LowerStr(s) == [i \in 1..Len(s) |-> Lower(s[i])]

\* s[i..] begins with the text w
HasAt(s, i, w) ==
  /\ i + Len(w) - 1 <= Len(s)
  /\ \A k \in 1..Len(w) : s[i + k - 1] = w[k]

\* end of the maximal run of characters of cs that starts at i (i - 1 if none)
RECURSIVE RunEnd(_, _, _)
RunEnd(s, i, cs) ==
  IF i <= Len(s) /\ s[i] \in cs THEN RunEnd(s, i + 1, cs) ELSE i - 1

-----------------------------------------------------------------------------
(* utils.py: clean_text *)

Separators == {" ", "<>"}

\* the words of a text: maximal runs free of whitespace and markup
RECURSIVE Words(_)
Words(s) ==
  IF s = <<>> THEN <<>>
  ELSE IF s[1] \in Separators THEN Words(Tail(s))
  ELSE LET e == RunEnd(s, 1, {s[k] : k \in 1..Len(s)} \ Separators)
       IN  <<SubSeq(s, 1, e)>> \o Words(SubSeq(s, e + 1, Len(s)))

RECURSIVE JoinWords(_)
JoinWords(ws) ==
  IF ws = <<>> THEN <<>>
  ELSE IF Len(ws) = 1 THEN ws[1]
  ELSE ws[1] \o <<" ">> \o JoinWords(Tail(ws))

\* markup removed, whitespace collapsed to single blanks, ends trimmed
clean_text(s) == JoinWords(Words(s))

-----------------------------------------------------------------------------
(* utils.py: parse_duration_to_minutes *)

\* the word of ws found at position i of s, if any
WordAt(s, i, ws) == \E w \in ws : HasAt(s, i, w)

\* re.search(r'(\d+)\s*(?:w1|w2..)', s): the digits of the leftmost run of
\* digits that is followed (after optional blanks when blanks = TRUE) by one
\* of the words ws; <<>> when there is no match
SearchNumber(s, ws, blanks) ==
  LET After(i) == LET e == RunEnd(s, i, Digits)
                  IN  IF blanks THEN RunEnd(s, e + 1, {" "}) + 1 ELSE e + 1
      Starts == {i \in 1..Len(s) :
                   /\ s[i] \in Digits
                   /\ (i = 1 \/ s[i - 1] \notin Digits)
                   /\ WordAt(s, After(i), ws)}
  IN  IF Starts = {} THEN <<>>
      ELSE LET i == CHOOSE j \in Starts : \A k \in Starts : j <= k
           IN  SubSeq(s, i, RunEnd(s, i, Digits))

\* the ISO 8601 branch, on the cleaned text
IsoMinutesZeroAbsent(c) ==
  LET hours_match == SearchNumber(c, {<<"H">>}, FALSE)
      minutes_match == SearchNumber(c, {<<"M">>}, FALSE)
      seconds_match == SearchNumber(c, {<<"S">>}, FALSE)
      hm == (IF hours_match # <<>> THEN ToInt(hours_match) * 60 ELSE 0)
            + (IF minutes_match # <<>> THEN ToInt(minutes_match) ELSE 0)
      total_minutes ==
        IF seconds_match # <<>> /\ hm = 0 /\ ToInt(seconds_match) >= 30
        THEN hm + 1 ELSE hm
  IN  IF total_minutes > 0 THEN PyInt(total_minutes) ELSE None

IsoMinutesNoHours(c) ==
  LET hours_match == SearchNumber(c, {<<"H">>}, FALSE)
      minutes_match == SearchNumber(c, {<<"M">>}, FALSE)
      seconds_match == SearchNumber(c, {<<"S">>}, FALSE)
      hm == (IF minutes_match # <<>> THEN ToInt(minutes_match) ELSE 0)
      total_minutes ==
        IF seconds_match # <<>> /\ hm = 0 /\ ToInt(seconds_match) >= 30
        THEN hm + 1 ELSE hm
  IN  IF total_minutes > 0 THEN PyInt(total_minutes)
      ELSE IF hours_match = <<>> /\ minutes_match = <<>> /\ seconds_match = <<>>
           THEN None ELSE PyInt(0)

IsoMinutes(c) ==
  LET hours_match == SearchNumber(c, {<<"H">>}, FALSE)
      minutes_match == SearchNumber(c, {<<"M">>}, FALSE)
      seconds_match == SearchNumber(c, {<<"S">>}, FALSE)
      hm == (IF hours_match # <<>> THEN ToInt(hours_match) * 60 ELSE 0)
            + (IF minutes_match # <<>> THEN ToInt(minutes_match) ELSE 0)
      total_minutes ==
        IF seconds_match # <<>> /\ hm = 0 /\ ToInt(seconds_match) >= 30
        THEN hm + 1 ELSE hm
  IN  IF total_minutes > 0 THEN PyInt(total_minutes)
      ELSE IF hours_match = <<>> /\ minutes_match = <<>> /\ seconds_match = <<>>
           THEN None ELSE PyInt(0)

\* the free-text branch, on the cleaned text
TextMinutes(c) ==
  LET l == LowerStr(c)
      hour_match == SearchNumber(l, {<<"h", "o", "u", "r">>, <<"h", "r">>}, TRUE)
      minute_match ==
        SearchNumber(l, {<<"m", "i", "n", "u", "t", "e">>, <<"m", "i", "n">>}, TRUE)
      simple_minute_match == SearchNumber(l, {<<>>}, FALSE)
      hours == IF hour_match # <<>> THEN ToInt(hour_match) ELSE 0
      minutes_ ==
        IF minute_match # <<>> THEN ToInt(minute_match)
        ELSE IF hour_match = <<>> /\ simple_minute_match # <<>>
             THEN ToInt(simple_minute_match) ELSE 0
      calculated_total_minutes == hours * 60 + minutes_
  IN  IF calculated_total_minutes > 0 THEN PyInt(calculated_total_minutes)
      ELSE None

\* str(x) of a str, of a non-negative int or of None
str(x) ==
  CASE x.t = "int" -> ToStr(x.v)
    [] x.t = "none" -> <<"N", "o", "n", "e">>
    [] OTHER -> x.v

\* int(x) of a non-negative int or float: the fraction is cut off
int(x) == IF x.t = "float" THEN x.num \div x.den ELSE x.v

parse_duration_to_minutes(d) ==
  IF ~Truthy(d) THEN None
  ELSE IF d.t \in {"int", "float"} THEN PyInt(int(d))
  ELSE LET cleaned_duration_str == clean_text(str(d))
       IN  IF cleaned_duration_str = <<>> THEN None
           ELSE IF HasAt(cleaned_duration_str, 1, <<"P", "T">>)
                THEN IsoMinutes(cleaned_duration_str)
                ELSE TextMinutes(cleaned_duration_str)

-----------------------------------------------------------------------------
(* utils.py: extract_allergens_from_text *)

\* str.upper() of one character
Upper(c) ==
  IF \E k \in 1..Len(LowerCase) : LowerCase[k] = c
  THEN UpperCase[CHOOSE k \in 1..Len(LowerCase) : LowerCase[k] = c]
  ELSE c

\* first position >= i that is not a blank
SkipBlanks(s, i) == RunEnd(s, i, {" "}) + 1

\* str.strip(): blanks removed at both ends
RECURSIVE Strip(_)
Strip(s) ==
  IF s = <<>> THEN s
  ELSE IF s[1] = " " THEN Strip(Tail(s))
  ELSE IF s[Len(s)] = " " THEN Strip(SubSeq(s, 1, Len(s) - 1))
  ELSE s

\* str.rstrip(c)
RECURSIVE RStrip(_, _)
RStrip(s, c) ==
  IF s # <<>> /\ s[Len(s)] = c THEN RStrip(SubSeq(s, 1, Len(s) - 1), c) ELSE s

\* the literal w at position i, letters compared without case (re.IGNORECASE)
HasAtIgnoreCase(s, i, w) ==
  /\ i + Len(w) - 1 <= Len(s)
  /\ \A k \in 1..Len(w) : Lower(s[i + k - 1]) = Lower(w[k])

DISCLOSURE_HEADERS ==
  <<<<"C", "o", "n", "t", "a", "i", "n", "s">>,
    <<"A", "l", "l", "e", "r", "g", "e", "n", "s">>,
    <<"A", "l", "l", "e", "r", "g", "e", "n", " ",
      "I", "n", "f", "o", "r", "m", "a", "t", "i", "o", "n">>>>

\* \((?:Contains|Allergens|Allergen Information):\s*([^)]+)\) tried at the
\* position i of s: [from, to] is the span of group 1 and end the position of
\* the closing parenthesis; end = 0 when the pattern does not match at i
DisclosureAt(s, i) ==
  LET Heads == {h \in 1..Len(DISCLOSURE_HEADERS) :
                  /\ HasAtIgnoreCase(s, i + 1, DISCLOSURE_HEADERS[h])
                  /\ i + 1 + Len(DISCLOSURE_HEADERS[h]) <= Len(s)
                  /\ s[i + 1 + Len(DISCLOSURE_HEADERS[h])] = ":"}
      NoMatch == [from |-> 0, to |-> 0, end |-> 0]
  IN  IF i > Len(s) \/ s[i] # "(" \/ Heads = {} THEN NoMatch
      ELSE LET h == CHOOSE x \in Heads : \A y \in Heads : x <= y
               colon == i + 1 + Len(DISCLOSURE_HEADERS[h])
               close == RunEnd(s, colon + 1, {s[k] : k \in 1..Len(s)} \ {")"}) + 1
               body == SkipBlanks(s, colon + 1)
           IN  IF close > Len(s) \/ close = colon + 1 THEN NoMatch
               ELSE [from |-> IF body < close THEN body ELSE close - 1,
                     to |-> close - 1, end |-> close]

\* re.split(r',\s*|\s+and\s+', s): the length of the separator that starts at
\* position i, 0 when none starts there
SeparatorAt(s, i) ==
  IF s[i] = "," THEN SkipBlanks(s, i + 1) - i
  ELSE IF s[i] = " "
       THEN LET a == SkipBlanks(s, i)
                e == SkipBlanks(s, a + 3)
            IN  IF HasAt(s, a, <<"a", "n", "d">>) /\ e > a + 3 THEN e - i ELSE 0
       ELSE 0

RECURSIVE SplitAllergens(_, _, _)
SplitAllergens(s, i, from) ==
  IF i > Len(s) THEN <<SubSeq(s, from, Len(s))>>
  ELSE LET n == SeparatorAt(s, i)
       IN  IF n > 0
           THEN <<SubSeq(s, from, i - 1)>> \o SplitAllergens(s, i + n, i + n)
           ELSE SplitAllergens(s, i + 1, from)

\* str.capitalize() of an already lower-cased text
Capitalize(s) == [k \in 1..Len(s) |-> IF k = 1 THEN Upper(s[k]) ELSE s[k]]

\* allergen.strip().rstrip('.').lower().capitalize()
NormalizeAllergen(a) == Capitalize(LowerStr(RStrip(Strip(a), ".")))

\* the set of allergens of the first disclosure of the text
extract_allergens_from_text(text) ==
  LET Hits == {i \in 1..Len(text) : DisclosureAt(text, i).end > 0}
  IN  IF Hits = {} THEN {}
      ELSE LET m == DisclosureAt(text, CHOOSE i \in Hits : \A j \in Hits : i <= j)
               potential_allergens == SplitAllergens(SubSeq(text, m.from, m.to), 1, 1)
           IN  {NormalizeAllergen(potential_allergens[k]) :
                  k \in 1..Len(potential_allergens)} \ {<<>>}

\* the substitution left out: the text from i on, disclosures included
RemoveDisclosuresKeepsAll(s, i) == SubSeq(s, i, Len(s))

\* re.sub(r'\s*\((?:Contains|...):\s*[^)]+\)', '', s): every disclosure is
\* removed together with the blanks before it
RECURSIVE RemoveDisclosures(_, _)
RemoveDisclosures(s, i) ==
  IF i > Len(s) THEN <<>>
  ELSE LET m == DisclosureAt(s, SkipBlanks(s, i))
       IN  IF m.end > 0 THEN RemoveDisclosures(s, m.end + 1)
           ELSE <<s[i]>> \o RemoveDisclosures(s, i + 1)

-----------------------------------------------------------------------------
(* utils.py: parse_ingredient_strings_list *)

Raise(type) == [t |-> "raise", type |-> type]

\* a BeautifulSoup element with its get_text()
Element(text) == [t |-> "element", v |-> text]

\* the quantity words of the pattern, in the order the alternation tries them
\* (pinch(?:es)? and dash(?:es)? try the long form first)
QUANTITY_WORDS ==
  <<<<"o", "n", "e">>,
    <<"t", "w", "o">>,
    <<"t", "h", "r", "e", "e">>,
    <<"f", "o", "u", "r">>,
    <<"f", "i", "v", "e">>,
    <<"s", "i", "x">>,
    <<"s", "e", "v", "e", "n">>,
    <<"e", "i", "g", "h", "t">>,
    <<"n", "i", "n", "e">>,
    <<"t", "e", "n">>,
    <<"a">>,
    <<"a", "n">>,
    <<"s", "o", "m", "e">>,
    <<"p", "i", "n", "c", "h", "e", "s">>,
    <<"p", "i", "n", "c", "h">>,
    <<"d", "a", "s", "h", "e", "s">>,
    <<"d", "a", "s", "h">>,
    <<"a", " ", "f", "e", "w">>,
    <<"s", "e", "v", "e", "r", "a", "l">>,
    <<"t", "o", " ", "t", "a", "s", "t", "e">>>>

\* the unit alternation of the pattern, in its order
UNIT_WORDS ==
  <<<<"t", "h", "u", "m", "b">>,
    <<"c", "l", "o", "v", "e">>,
    <<"u", "n", "i", "t">>,
    <<"c", "u", "p">>,
    <<"o", "u", "n", "c", "e">>,
    <<"o", "z">>,
    <<"t", "e", "a", "s", "p", "o", "o", "n">>,
    <<"t", "s", "p">>,
    <<"t", "a", "b", "l", "e", "s", "p", "o", "o", "n">>,
    <<"t", "b", "s", "p">>,
    <<"t", "b">>,
    <<"g", "r", "a", "m">>,
    <<"g">>,
    <<"k", "g">>,
    <<"m", "l">>,
    <<"l">>,
    <<"p", "i", "n", "c", "h">>,
    <<"c", "a", "n">>,
    <<"c", "a", "n", "s">>,
    <<"s", "t", "a", "l", "k">>,
    <<"h", "e", "a", "d">>,
    <<"b", "u", "n", "c", "h">>,
    <<"s", "l", "i", "c", "e">>,
    <<"s", "l", "i", "c", "e", "s">>,
    <<"p", "a", "c", "k", "e", "t">>,
    <<"p", "a", "c", "k">>,
    <<"b", "o", "x">>,
    <<"c", "o", "n", "t", "a", "i", "n", "e", "r">>,
    <<"b", "o", "t", "t", "l", "e">>,
    <<"p", "i", "e", "c", "e">>,
    <<"l", "b">>,
    <<"p", "o", "u", "n", "d">>,
    <<"p", "o", "u", "n", "d", "s">>,
    <<"q", "t">>,
    <<"q", "u", "a", "r", "t">>,
    <<"p", "t">>,
    <<"p", "i", "n", "t">>,
    <<"g", "a", "l", "l", "o", "n">>,
    <<"g", "a", "l">>,
    <<"d", "r", "o", "p">>,
    <<"d", "a", "s", "h", "e", "s">>,
    <<"l", "e", "a", "v", "e", "s">>>>

common_units_check ==
  {<<"t", "h", "u", "m", "b">>,
   <<"c", "l", "o", "v", "e">>,
   <<"u", "n", "i", "t">>,
   <<"l", "i", "m", "e">>,
   <<"s", "c", "a", "l", "l", "i", "o", "n", "s">>,
   <<"g", "a", "r", "l", "i", "c">>,
   <<"g", "i", "n", "g", "e", "r">>}

QuantityChars == Digits \cup {".", "/"}

\* (?:[\s-]\d\/\d) right after position k
HasFractionSuffix(s, k) ==
  /\ k + 4 <= Len(s)
  /\ s[k + 1] \in {" ", "-"}
  /\ s[k + 2] \in Digits
  /\ s[k + 3] = "/"
  /\ s[k + 4] \in Digits

\* [\d\.\/]+(?:[\s-]\d\/\d)? from p: the ends it can stop at, the greedy
\* choices first (k runs from the end of the run down to p)
RECURSIVE NumberEnds(_, _, _)
NumberEnds(s, p, k) ==
  IF k < p THEN <<>>
  ELSE (IF HasFractionSuffix(s, k) THEN <<k + 4>> ELSE <<>>)
       \o <<k>> \o NumberEnds(s, p, k - 1)

\* \d+ from p: the ends it can stop at, longest first
RECURSIVE DigitEnds(_, _)
DigitEnds(p, k) == IF k < p THEN <<>> ELSE <<k>> \o DigitEnds(p, k - 1)

RECURSIVE WordEnds(_, _, _)
WordEnds(s, p, n) ==
  IF n > Len(QUANTITY_WORDS) THEN <<>>
  ELSE (IF HasAtIgnoreCase(s, p, QUANTITY_WORDS[n])
        THEN <<p + Len(QUANTITY_WORDS[n]) - 1>> ELSE <<>>)
       \o WordEnds(s, p, n + 1)

\* every end position the quantity group can take from p, in the order the
\* regular expression engine tries them
QuantityEnds(s, p) ==
  NumberEnds(s, p, RunEnd(s, p, QuantityChars))
  \o DigitEnds(p, RunEnd(s, p, Digits))
  \o WordEnds(s, p, 1)

\* pattern.match(full_text) on a text normalized by clean_text (no blank at
\* either end): the groups as spans, or matched = FALSE.  The name group
\* (.+) needs one character, so a quantity or a unit is only taken when
\* something is left after it and the blanks that follow it.
PatternMatch(s) ==
  LET p == SkipBlanks(s, 1)
      ends == QuantityEnds(s, p)
      Good == {n \in 1..Len(ends) : SkipBlanks(s, ends[n] + 1) <= Len(s)}
  IN  IF Good = {} THEN [matched |-> FALSE]
      ELSE LET q == ends[CHOOSE n \in Good : \A m \in Good : n <= m]
               u == SkipBlanks(s, q + 1)
               Units == {n \in 1..Len(UNIT_WORDS) :
                           /\ HasAtIgnoreCase(s, u, UNIT_WORDS[n])
                           /\ SkipBlanks(s, u + Len(UNIT_WORDS[n])) <= Len(s)}
               w == IF Units = {} THEN <<>>
                    ELSE UNIT_WORDS[CHOOSE n \in Units : \A m \in Units : n <= m]
           IN  [matched |-> TRUE,
                quantity |-> SubSeq(s, p, q),
                unit |-> SubSeq(s, u, u + Len(w) - 1),
                name |-> SubSeq(s, SkipBlanks(s, u + Len(w)), Len(s))]

\* str.split(' ')[0] and str.split(' ', 1)[1]
FirstWord(s) ==
  LET Blanks == {i \in 1..Len(s) : s[i] = " "}
  IN  IF Blanks = {} THEN s
      ELSE SubSeq(s, 1, (CHOOSE i \in Blanks : \A j \in Blanks : i <= j) - 1)

AfterFirstWord(s) == SubSeq(s, Len(FirstWord(s)) + 2, Len(s))

\* lines 141-160: quantity_str, unit_str and name_str of a line; an absent
\* quantity or unit is the empty text
SplitLine(full_text) ==
  LET Named(quantity, unit, name_str, first) ==
        IF unit = <<>> /\ quantity # <<>>
           /\ ~(\E k \in 1..Len(first) : first[k] \in Digits)
        THEN [quantity_str |-> quantity, unit_str |-> <<>>, name_str |-> name_str]
        ELSE IF unit = <<>> /\ quantity # <<>>
                /\ LowerStr(first) \in common_units_check
        THEN [quantity_str |-> quantity, unit_str |-> first,
              name_str |-> AfterFirstWord(name_str)]
        ELSE [quantity_str |-> quantity, unit_str |-> unit, name_str |-> name_str]
      Matched(m, name_str) == Named(m.quantity, m.unit, name_str, FirstWord(name_str))
      Split(m) ==
        IF ~m.matched
        THEN [quantity_str |-> <<>>, unit_str |-> <<>>, name_str |-> full_text]
        ELSE Matched(m, RStrip(Strip(m.name), ","))
  IN  Split(PatternMatch(full_text))

qty_word_map ==
  <<[word |-> <<"a">>, value |-> 1],
    [word |-> <<"a", "n">>, value |-> 1],
    [word |-> <<"o", "n", "e">>, value |-> 1],
    [word |-> <<"t", "w", "o">>, value |-> 2],
    [word |-> <<"t", "h", "r", "e", "e">>, value |-> 3],
    [word |-> <<"f", "o", "u", "r">>, value |-> 4],
    [word |-> <<"f", "i", "v", "e">>, value |-> 5],
    [word |-> <<"s", "i", "x">>, value |-> 6],
    [word |-> <<"s", "e", "v", "e", "n">>, value |-> 7],
    [word |-> <<"e", "i", "g", "h", "t">>, value |-> 8],
    [word |-> <<"n", "i", "n", "e">>, value |-> 9],
    [word |-> <<"t", "e", "n">>, value |-> 10]>>

RECURSIVE GCD(_, _)
GCD(a, b) == IF b = 0 THEN a ELSE GCD(b, a % b)

\* the float n / d, in lowest terms
Fraction(n, d) == PyFloat(n \div GCD(n, d), d \div GCD(n, d))

RECURSIVE Pow10(_)
Pow10(n) == IF n = 0 THEN 1 ELSE 10 * Pow10(n - 1)

\* str.split / re.split on the single characters of seps
RECURSIVE SplitOn(_, _)
SplitOn(s, seps) ==
  LET At == {i \in 1..Len(s) : s[i] \in seps}
  IN  IF At = {} THEN <<s>>
      ELSE LET i == CHOOSE j \in At : \A k \in At : j <= k
           IN  <<SubSeq(s, 1, i - 1)>> \o SplitOn(SubSeq(s, i + 1, Len(s)), seps)

\* int(s) succeeds: s is a non-empty run of digits
IsInt(s) == s # <<>> /\ \A k \in 1..Len(s) : s[k] \in Digits

\* float(s) succeeds: digits with at most one dot
IsFloat(s) ==
  /\ \A k \in 1..Len(s) : s[k] \in Digits \cup {"."}
  /\ \E k \in 1..Len(s) : s[k] \in Digits
  /\ Cardinality({k \in 1..Len(s) : s[k] = "."}) <= 1

\* float(s) of a text that IsFloat accepts
ToFloat(s) ==
  LET parts == SplitOn(s, {"."})
      frac == IF Len(parts) = 2 THEN parts[2] ELSE <<>>
  IN  Fraction(ToInt(parts[1] \o frac), Pow10(Len(frac)))

\* num, den = map(int, s.split('/')) succeeds
IsSimpleFraction(s) ==
  LET parts == SplitOn(s, {"/"})
  IN  Len(parts) = 2 /\ IsInt(parts[1]) /\ IsInt(parts[2])

\* lines 163-183: the quantity of a quantity_str.  A ValueError keeps the
\* token; the division by a zero denominator is not caught.
ConvertQuantity(quantity_str) ==
  LET InMap == {n \in 1..Len(qty_word_map) :
                  qty_word_map[n].word = LowerStr(quantity_str)}
      Has(c) == \E k \in 1..Len(quantity_str) : quantity_str[k] = c
  IN  IF quantity_str = <<>> THEN None
      ELSE IF InMap # {} THEN PyInt(qty_word_map[CHOOSE n \in InMap : TRUE].value)
      ELSE IF Has("/")
      THEN IF Has("-") \/ Has(" ")
           THEN LET parts == SplitOn(quantity_str, {" ", "-"})
                    fr == SplitOn(parts[2], {"/"})
                IN  IF ~IsInt(parts[1]) \/ ~IsSimpleFraction(parts[2])
                    THEN PyStr(quantity_str)
                    ELSE IF ToInt(fr[2]) = 0 THEN Raise("ZeroDivisionError")
                    ELSE Fraction(ToInt(parts[1]) * ToInt(fr[2]) + ToInt(fr[1]),
                                  ToInt(fr[2]))
           ELSE LET fr == SplitOn(quantity_str, {"/"})
                IN  IF ~IsSimpleFraction(quantity_str) THEN PyStr(quantity_str)
                    ELSE IF ToInt(fr[2]) = 0 THEN Raise("ZeroDivisionError")
                    ELSE Fraction(ToInt(fr[1]), ToInt(fr[2]))
      ELSE IF IsFloat(quantity_str) THEN ToFloat(quantity_str)
      ELSE PyStr(quantity_str)

\* lines 112-196: one item of the list: "skip" for an item that is dropped,
\* a raised exception, or the ingredient
ParseItem(item) ==
  LET Ingredient(full_text, item_allergens, parts, quantity, name_str) ==
        IF quantity.t = "raise" THEN quantity
        ELSE [t |-> "ingredient",
              name |-> IF name_str # <<>> THEN PyStr(clean_text(name_str)) ELSE None,
              quantity |-> quantity,
              unit |-> IF parts.unit_str # <<>>
                       THEN PyStr(clean_text(parts.unit_str)) ELSE None,
              full_text |-> PyStr(full_text),
              allergens_in_item |-> item_allergens]
      Split(full_text, item_allergens, parts) ==
        Ingredient(full_text, item_allergens, parts,
                   ConvertQuantity(parts.quantity_str),
                   IF parts.name_str # <<>> /\ item_allergens # {}
                   THEN Strip(RemoveDisclosures(parts.name_str, 1))
                   ELSE parts.name_str)
      Cleaned(full_text_raw, full_text) ==
        IF full_text = <<>> THEN [t |-> "skip"]
        ELSE Split(full_text, extract_allergens_from_text(full_text_raw),
                   SplitLine(full_text))
  IN  IF item.t \notin {"element", "str"} THEN [t |-> "skip"]
      ELSE Cleaned(item.v, clean_text(item.v))

\* the first item whose conversion raises, 0 when none does
FirstRaise(parsed) ==
  LET Bad == {k \in 1..Len(parsed) : parsed[k].t = "raise"}
  IN  IF Bad = {} THEN 0 ELSE CHOOSE k \in Bad : \A j \in Bad : k <= j

\* (parsed_ingredients, overall_allergens), or the exception that escapes
parse_ingredient_strings_list(items) ==
  LET Collect(parsed, bad) ==
        IF bad # 0 THEN parsed[bad]
        ELSE [t |-> "ok",
              ingredients |-> SelectSeq(parsed, LAMBDA r : r.t = "ingredient"),
              allergens |-> UNION {parsed[k].allergens_in_item :
                                     k \in {j \in 1..Len(parsed) : parsed[j].t = "ingredient"}}]
      Parsed(parsed) == Collect(parsed, FirstRaise(parsed))
  IN  Parsed([k \in 1..Len(items) |-> ParseItem(items[k])])

\* utils.py: parse_step_strings_list, with cleaning_func = clean_text
parse_step_strings_list(items) ==
  LET texts == [k \in 1..Len(items) |->
                  IF items[k].t \in {"element", "str"}
                  THEN clean_text(items[k].v) ELSE <<>>]
  IN  [k \in 1..Len(SelectSeq(texts, LAMBDA x : x # <<>>)) |->
         PyStr(SelectSeq(texts, LAMBDA x : x # <<>>)[k])]

-----------------------------------------------------------------------------
(* recipe_selectors.py: configuration *)

MAX_RETRIES == 2

\* REQUEST_DELAY_SECONDS = 1 and RETRY_BACKOFF_FACTOR = 0.3, in tenths of a second
REQUEST_DELAY_TENTHS == 10

RETRY_BACKOFF_TENTHS == 3

\* the {24} of id_in_url_pattern
ID_LENGTH == 24

Css(sel) == [type |-> "css", selector |-> sel, attribute_name |-> ""]

CssAttr(sel, attr) == [type |-> "css", selector |-> sel, attribute_name |-> attr]

Meta(sel, attr) == [type |-> "meta", selector |-> sel, attribute_name |-> attr]

CssList(sel) == [type |-> "css_list", selector |-> sel, attribute_name |-> ""]

Config(path, strategies) == [json_ld_path |-> path, css_selectors |-> strategies]

\* The per-field table.  A field without a "css_selectors" entry and a field
\* with an empty one both have <<>>: get_value tests the entry for truth only.
SELECTORS ==
  [external_id |->
     Config(<<"id">>, <<Meta("meta[name='page_id']", "content")>>),
   name |->
     Config(<<"name">>,
            <<Css("h1[data-test-id='recipe-name']"),
              Css("h1[itemprop='name']"),
              Css("h1"),
              Meta("meta[property='og:title']", "content")>>),
   description |->
     Config(<<"description">>,
            <<Css("span[data-test-id='recipe-description']"),
              Css("div[data-test-id='recipe-description'] p"),
              Meta("meta[name='description']", "content")>>),
   prep_time_minutes |->
     Config(<<"prepTime">>,
            <<CssAttr("*[itemprop='prepTime']", "content"),
              Css("div[data-test-id='recipe-metadata-item-prep-time'] span")>>),
   cook_time_minutes |->
     Config(<<"cookTime">>,
            <<CssAttr("*[itemprop='cookTime']", "content"),
              Css("div[data-test-id='recipe-metadata-item-cook-time'] span")>>),
   total_time_minutes |->
     Config(<<"totalTime">>,
            <<CssAttr("*[itemprop='totalTime']", "content"),
              Css("div[data-test-id='recipe-description-meta'] div:nth-of-type(1) span:nth-of-type(2)"),
              Css("span:contains('Total Time') + span")>>),
   servings |->
     Config(<<"recipeYield">>,
            <<Css("button[data-test-id='yield-select-button-yield'] span"),
              Css("span[data-test-id='recipe-yield']"),
              Css("*[itemprop='recipeYield']")>>),
   image_url |->
     Config(<<"image">>,
            <<Meta("meta[property='og:image']", "content"),
              CssAttr("img[data-test-id='recipe-hero-image']", "src")>>),
   ingredients |->
     Config(<<"recipeIngredient">>,
            <<CssList("div[data-test-id='ingredient-item-shipped'] div[data-test-id='ingredient-item-name']"),
              CssList("div[data-test-id='ingredient-item-not-shipped'] div[data-test-id='ingredient-item-name']"),
              CssList("*[itemprop='recipeIngredient']")>>),
   steps |->
     Config(<<"recipeInstructions">>,
            <<CssList("div[data-test-id='instruction-step-description']")>>),
   nutrition_info |-> Config(<<"nutrition">>, <<>>),
   tags_array |->
     Config(<<"keywords">>,
            <<CssList("div[data-test-id='recipe-tags-container'] a[data-test-id='tag-link']")>>),
   cuisine |-> Config(<<"recipeCuisine">>, <<>>),
   category |-> Config(<<"recipeCategory">>, <<>>),
   date_published |->
     Config(<<"datePublished">>,
            <<Meta("meta[property='article:published_time']", "content")>>),
   prep_time_iso |-> Config(<<"prepTime">>, <<>>),
   cook_time_iso |-> Config(<<"cookTime">>, <<>>),
   total_time_iso |-> Config(<<"totalTime">>, <<>>)]

Fields == DOMAIN SELECTORS

\* nutrition_info: css_selectors_parent and the keys of css_fields
NUTRITION_CSS_FIELDS ==
  <<<<"c", "a", "l", "o", "r", "i", "e", "s">>,
    <<"f", "a", "t">>,
    <<"s", "a", "t", "u", "r", "a", "t", "e", "d", "_", "f", "a", "t">>,
    <<"c", "a", "r", "b", "o", "h", "y", "d", "r", "a", "t", "e">>,
    <<"s", "u", "g", "a", "r">>,
    <<"p", "r", "o", "t", "e", "i", "n">>,
    <<"f", "i", "b", "e", "r">>,
    <<"c", "h", "o", "l", "e", "s", "t", "e", "r", "o", "l">>,
    <<"s", "o", "d", "i", "u", "m">>>>

-----------------------------------------------------------------------------
(* scraper.py: the embedded data *)

Recipe == <<"R", "e", "c", "i", "p", "e">>

\* item.get("@type") == "Recipe"
IsRecipe(x) ==
  /\ x.t = "dict"
  /\ "items" \notin DOMAIN x
  /\ "@type" \in DOMAIN x.v
  /\ x.v["@type"] = PyStr(Recipe)

\* get_json_ld_data, on what the script tag holds: no tag (or an empty one),
\* text that json.loads rejects, or the decoded value
get_json_ld_data(script) ==
  CASE script.t \in {"noscript", "invalid"} -> None
    [] script.t = "list" ->
         LET Recipes == {k \in 1..Len(script.v) : IsRecipe(script.v[k])}
         IN  IF Recipes # {}
             THEN script.v[CHOOSE k \in Recipes : \A j \in Recipes : k <= j]
             ELSE IF script.v # <<>> THEN script.v[1] ELSE None
    [] script.t = "dict" -> script
    [] OTHER -> None

\* extract_from_json_ld; every path of SELECTORS is made of mapping keys
RECURSIVE extract_from_json_ld(_, _)
extract_from_json_ld(json_data, path) ==
  IF path = <<>> THEN json_data
  ELSE IF json_data.t = "dict" /\ "items" \notin DOMAIN json_data
          /\ path[1] \in DOMAIN json_data.v
       THEN extract_from_json_ld(json_data.v[path[1]], Tail(path))
       ELSE None

\* lines 144-149 of get_value: the raw value of the field's embedded path
RawJsonValue(json_data, field_key) ==
  IF Truthy(json_data) /\ SELECTORS[field_key].json_ld_path # <<>>
  THEN extract_from_json_ld(json_data, SELECTORS[field_key].json_ld_path)
  ELSE None

-----------------------------------------------------------------------------
(* scraper.py: the presentation fallbacks *)

\* The page's presentation markup: strategy number i of a field finds
\* elements iff i is in soup.css and the field is not in soup.missing; the
\* elements found carry no text and no attribute when soup.blank.
Matches(soup, field_key, i) == i \in soup.css /\ field_key \notin soup.missing

\* lines 58-71 and 77-81: evaluating strategy number i (the selector query,
\* the attribute read, the cleaning) raises an exception, which the except
\* clause of the loop catches before it goes on with the next strategy
Raises(soup, field_key, i) == i \in soup.raising

TimeFields == {"prep_time_minutes", "cook_time_minutes", "total_time_minutes"}

\* the text, or attribute, of the first element that strategy i of the field finds
ElementText(field_key, i) ==
  IF field_key \in TimeFields
  THEN IF i = 1 THEN <<"P", "T">> \o ToStr(10 + i) \o <<"M">>
       ELSE ToStr(10 + i) \o <<" ", "m", "i", "n">>
  ELSE IF field_key = "servings" THEN <<" ">> \o ToStr(i) \o <<" ", "p">>
  ELSE <<" ", "c", "s", "s", "<>", DigitChar(i), " ">>

ElementValue(soup, field_key, i) ==
  IF ~soup.blank THEN PyStr(ElementText(field_key, i))
  ELSE IF SELECTORS[field_key].css_selectors[i].attribute_name # ""
       THEN None ELSE PyStr(<<>>)

\* the elements a list strategy finds
ElementList(soup, field_key, i) ==
  IF soup.blank THEN <<Element(<<" ">>)>>
  ELSE <<Element(<<"1", " ", "c", "u", "p", " ", "r", DigitChar(i)>>),
         Element(<<" ", "e", "<>", DigitChar(i)>>)>>

\* the loop without its except clause: an exception of a strategy tried
\* before any element is returned ends the resolution with nothing
ReturningStrategyAborting(soup, field_key) ==
  LET strategies == SELECTORS[field_key].css_selectors
      Stops == {i \in 1..Len(strategies) :
                  \/ Raises(soup, field_key, i)
                  \/ /\ Matches(soup, field_key, i)
                     /\ \/ strategies[i].type = "css"
                        \/ strategies[i].type = "meta" /\ strategies[i].attribute_name # ""}
      first == IF Stops = {} THEN 0 ELSE CHOOSE i \in Stops : \A j \in Stops : i <= j
  IN  IF first # 0 /\ Raises(soup, field_key, first) THEN 0 ELSE first

\* the strategy of extract_data_point after which the loop returns: the
\* first css strategy, or meta strategy with an attribute name, whose
\* selector finds an element; 0 when the loop runs to its end
ReturningStrategy(soup, field_key) ==
  LET strategies == SELECTORS[field_key].css_selectors
      Hits == {i \in 1..Len(strategies) :
                 /\ Matches(soup, field_key, i)
                 /\ ~Raises(soup, field_key, i)
                 /\ \/ strategies[i].type = "css"
                    \/ strategies[i].type = "meta" /\ strategies[i].attribute_name # ""}
  IN  IF Hits = {} THEN 0 ELSE CHOOSE i \in Hits : \A j \in Hits : i <= j

\* cleaning_func(value) if value and cleaning_func else
\* (value.strip() if value else None)
CleanPoint(cleaning_func, value) ==
  IF ~Truthy(value) THEN None
  ELSE IF cleaning_func = "clean_text" THEN PyStr(clean_text(value.v))
  ELSE PyStr(Strip(value.v))

extract_data_point(soup, field_key, cleaning_func) ==
  LET i == ReturningStrategy(soup, field_key)
  IN  IF i = 0 THEN None
      ELSE CleanPoint(cleaning_func, ElementValue(soup, field_key, i))

\* the strategies of extract_data_point whose selector is queried
QueriedByPoint(soup, field_key) ==
  LET strategies == SELECTORS[field_key].css_selectors
      last == ReturningStrategy(soup, field_key)
  IN  {i \in 1..Len(strategies) :
         /\ strategies[i].type \in {"css", "meta"}
         /\ (last = 0 \/ i <= last)}

\* the strategy of extract_list_data that returns its elements, 0 when none
ReturningListStrategy(soup, field_key) ==
  LET strategies == SELECTORS[field_key].css_selectors
      Hits == {i \in 1..Len(strategies) :
                 /\ strategies[i].type = "css_list"
                 /\ Matches(soup, field_key, i)
                 /\ ~Raises(soup, field_key, i)}
  IN  IF Hits = {} THEN 0 ELSE CHOOSE i \in Hits : \A j \in Hits : i <= j

extract_list_data(soup, field_key) ==
  LET i == ReturningListStrategy(soup, field_key)
  IN  IF i = 0 THEN <<>> ELSE ElementList(soup, field_key, i)

QueriedByList(soup, field_key) ==
  LET strategies == SELECTORS[field_key].css_selectors
      last == ReturningListStrategy(soup, field_key)
  IN  {i \in 1..Len(strategies) :
         /\ strategies[i].type = "css_list"
         /\ (last = 0 \/ i <= last)}

-----------------------------------------------------------------------------
(* scraper.py: parse_servings_from_json, process_json_steps, get_value *)

parse_servings_from_json(yield_data) ==
  CASE yield_data.t = "none" -> None
    [] yield_data.t \in {"int", "float"} -> PyInt(int(yield_data))
    [] yield_data.t = "str" ->
         LET match == SearchNumber(yield_data.v, {<<>>}, FALSE)
         IN  IF match # <<>> THEN PyInt(ToInt(match)) ELSE None
    [] OTHER -> None

HowToStep == <<"H", "o", "w", "T", "o", "S", "t", "e", "p">>

\* the text process_json_steps keeps of one item, <<>> when it keeps none
JsonStepText(step_item) ==
  IF step_item.t = "dict" /\ "items" \notin DOMAIN step_item
     /\ "@type" \in DOMAIN step_item.v /\ step_item.v["@type"] = PyStr(HowToStep)
  THEN IF "text" \in DOMAIN step_item.v /\ step_item.v["text"].t \in {"str", "int"}
       THEN clean_text(str(step_item.v["text"])) ELSE <<>>
  ELSE IF step_item.t = "str" THEN clean_text(step_item.v)
  ELSE <<>>

process_json_steps(step_data_list) ==
  IF step_data_list.t # "list" THEN PyList(<<>>)
  ELSE LET texts == [k \in 1..Len(step_data_list.v) |-> JsonStepText(step_data_list.v[k])]
           kept == SelectSeq(texts, LAMBDA x : x # <<>>)
       IN  PyList([k \in 1..Len(kept) |-> PyStr(kept[k])])

\* the arguments of get_value, with their defaults
Default ==
  [cleaning_func |-> "clean_text", is_list |-> FALSE,
   json_list_item_processor |-> "none", css_list_item_processor |-> "none",
   specific_json_parser |-> "none"]

Raw == [Default EXCEPT !.cleaning_func = "none"]

ApplyParser(specific_json_parser, raw_json_value) ==
  IF specific_json_parser = "parse_duration_to_minutes"
  THEN parse_duration_to_minutes(raw_json_value)
  ELSE parse_servings_from_json(raw_json_value)

\* cleaning_func(str(raw_json_value)): clean_text, or the strip lambda of
\* date_published
CleanJson(cleaning_func, raw_json_value) ==
  IF cleaning_func = "clean_text" THEN PyStr(clean_text(str(raw_json_value)))
  ELSE IF str(raw_json_value) = <<>> THEN None
  ELSE PyStr(Strip(str(raw_json_value)))

\* line 157: the items of a list that are true, cleaned when there is a
\* cleaning function
CleanJsonList(cleaning_func, raw_json_value) ==
  LET kept == SelectSeq(raw_json_value.v, Truthy)
  IN  PyList([k \in 1..Len(kept) |->
                IF cleaning_func = "none" THEN kept[k]
                ELSE CleanJson(cleaning_func, kept[k])])

\* lines 151-158: the value of a field whose embedded path gave raw_json_value
FromJson(raw_json_value, opt) ==
  IF opt.specific_json_parser # "none"
  THEN ApplyParser(opt.specific_json_parser, raw_json_value)
  ELSE IF opt.is_list
  THEN IF opt.json_list_item_processor # "none"
       THEN process_json_steps(raw_json_value)
       ELSE IF raw_json_value.t = "list"
            THEN CleanJsonList(opt.cleaning_func, raw_json_value)
            ELSE PyList(<<>>)
  ELSE IF opt.cleaning_func # "none" /\ raw_json_value.t \in {"str", "int", "float"}
       THEN CleanJson(opt.cleaning_func, raw_json_value)
       ELSE raw_json_value

\* lines 160-171: the value of a field from its presentation fallbacks
FromCss(soup, field_key, opt) ==
  IF SELECTORS[field_key].css_selectors = <<>> THEN None
  ELSE IF opt.is_list
  THEN LET elements == extract_list_data(soup, field_key)
       IN  IF opt.css_list_item_processor # "none" /\ elements # <<>>
           THEN PyList(parse_step_strings_list(elements))
           ELSE PyList(<<>>)
  ELSE extract_data_point(soup, field_key, opt.cleaning_func)

\* a variant of UsesFallback that also falls through when the field's parser
\* gave nothing for the raw value
UsesFallbackAfterParser(json_data, field_key, opt) ==
  \/ RawJsonValue(json_data, field_key) = None
  \/ FromJson(RawJsonValue(json_data, field_key), opt) = None

\* line 151: the fallbacks are reached only when the raw value is None
UsesFallback(json_data, field_key, opt) == RawJsonValue(json_data, field_key) = None

get_value(json_data, soup, field_key, opt) ==
  IF UsesFallback(json_data, field_key, opt)
  THEN FromCss(soup, field_key, opt)
  ELSE FromJson(RawJsonValue(json_data, field_key), opt)

\* the fallback strategies of the field that a call of get_value queries
Queried(json_data, soup, field_key, opt) ==
  IF ~UsesFallback(json_data, field_key, opt) THEN {}
  ELSE IF opt.is_list
       THEN {<<field_key, i>> : i \in QueriedByList(soup, field_key)}
       ELSE {<<field_key, i>> : i \in QueriedByPoint(soup, field_key)}

-----------------------------------------------------------------------------
(* scraper.py: external id, image, tags, nutrition *)

Alphanumeric == Digits \cup {UpperCase[k] : k \in 1..26} \cup {LowerCase[k] : k \in 1..26}

\* text.split('?')[0].split('/')[-1]
LastSegment(text) ==
  LET path == SplitOn(text, {"?"})[1]
      segments == SplitOn(path, {"/"})
  IN  segments[Len(segments)]

\* re.search(id_in_url_pattern, segment): group 1, <<>> when there is no match
IdMatch(segment) ==
  IF /\ Len(segment) >= ID_LENGTH
     /\ \A k \in (Len(segment) - ID_LENGTH + 1)..Len(segment) : segment[k] \in Alphanumeric
  THEN SubSeq(segment, Len(segment) - ID_LENGTH + 1, Len(segment))
  ELSE <<>>

\* lines 178-192
ExternalId(recipe_url, json_ld_id_val) ==
  LET extracted_id_from_url == IdMatch(LastSegment(recipe_url))
  IN  IF Truthy(json_ld_id_val) /\ json_ld_id_val.t = "str"
      THEN IF IdMatch(LastSegment(json_ld_id_val.v)) # <<>>
           THEN PyStr(IdMatch(LastSegment(json_ld_id_val.v)))
           ELSE json_ld_id_val
      ELSE IF extracted_id_from_url # <<>> THEN PyStr(extracted_id_from_url)
      ELSE None

\* d.get(key)
Get(d, key) == IF key \in DOMAIN d.v THEN d.v[key] ELSE None

\* lines 209-215: the image reference before it is stripped; "unset" when
\* no branch assigns the key
ImageReference(raw_image_data) ==
  IF raw_image_data.t = "list" /\ raw_image_data.v # <<>>
  THEN LET img_item == raw_image_data.v[1]
       IN  IF img_item.t = "dict" THEN Get(img_item, "url") ELSE PyStr(str(img_item))
  ELSE IF raw_image_data.t = "dict"
  THEN IF Truthy(Get(raw_image_data, "url")) THEN Get(raw_image_data, "url")
       ELSE Get(raw_image_data, "contentUrl")
  ELSE IF raw_image_data.t = "str" THEN raw_image_data
  ELSE [t |-> "unset"]

\* lines 278-282
TagsArray(tags_value) ==
  IF tags_value.t = "str"
  THEN LET pieces == SplitOn(tags_value.v, {","})
           kept == SelectSeq([k \in 1..Len(pieces) |-> Strip(pieces[k])],
                             LAMBDA x : x # <<>>)
       IN  PyList([k \in 1..Len(kept) |-> PyStr(kept[k])])
  ELSE IF tags_value.t = "list"
  THEN LET kept == SelectSeq(tags_value.v, Truthy)
       IN  PyList([k \in 1..Len(kept) |-> PyStr(clean_text(str(kept[k])))])
  ELSE PyList(<<>>)

Contains(s, w) == \E i \in 1..Len(s) : HasAt(s, i, w)

\* s.replace(w, "")
RECURSIVE Remove(_, _)
Remove(s, w) ==
  IF s = <<>> THEN s
  ELSE IF HasAt(s, 1, w) THEN Remove(SubSeq(s, Len(w) + 1, Len(s)), w)
  ELSE <<s[1]>> \o Remove(Tail(s), w)

\* lines 249-250
CleanKey(key) ==
  IF Contains(LowerStr(key), <<"c", "a", "l", "o", "r", "i", "e", "s">>) THEN <<"c", "a", "l", "o", "r", "i", "e", "s">>
  ELSE LowerStr(Remove(key, <<"C", "o", "n", "t", "e", "n", "t">>))

\* extract_nutrition_value: float() of the first run of digits and dots,
\* None without such a run; float() raises ValueError on a run like "."
extract_nutrition_value(value_str) ==
  IF value_str.t = "none" THEN None
  ELSE LET text == LowerStr(str(value_str))
           Starts == {i \in 1..Len(text) : text[i] \in Digits \cup {"."}}
       IN  IF Starts = {} THEN None
           ELSE LET i == CHOOSE j \in Starts : \A k \in Starts : j <= k
                    run == SubSeq(text, i, RunEnd(text, i, Digits \cup {"."}))
                IN  IF IsFloat(run) THEN ToFloat(run) ELSE Raise("ValueError")

\* lines 244-254: parsed_nutrition after the first n items, or the exception
RECURSIVE ParsedNutrition(_, _)
ParsedNutrition(items, n) ==
  IF n = 0 THEN PyDict(<<>>)
  ELSE LET before == ParsedNutrition(items, n - 1)
           num_value == extract_nutrition_value(PyStr(str(items[n].value)))
       IN  IF before.t = "raise" THEN before
           ELSE IF num_value.t = "raise" THEN num_value
           ELSE IF num_value = None THEN before
           ELSE PyDict((CleanKey(items[n].key) :> num_value) @@ before.v)

\* what the element of nutrition field k under the parent container shows
NutritionElementText(k) == ToStr(10 * k) \o <<" ", "g">>

\* lines 264-270: css_nutrition_data after the first n fields of css_fields
RECURSIVE CssNutrition(_, _)
CssNutrition(soup, n) ==
  IF n = 0 THEN PyDict(<<>>)
  ELSE LET before == CssNutrition(soup, n - 1)
           value == IF n \in soup.nutrition_fields
                    THEN CleanPoint("clean_text",
                                    IF soup.blank THEN PyStr(<<>>)
                                    ELSE PyStr(NutritionElementText(n)))
                    ELSE None
           num_value == IF Truthy(value) THEN extract_nutrition_value(value) ELSE None
       IN  IF before.t = "raise" THEN before
           ELSE IF num_value.t = "raise" THEN num_value
           ELSE IF num_value = None THEN before
           ELSE PyDict((Remove(NUTRITION_CSS_FIELDS[n], <<"_", "s", "c", "h", "e", "m", "a">>) :> num_value)
                       @@ before.v)

-----------------------------------------------------------------------------
(* The pages explored: what the server returns for the URL *)

SampleId ==
  <<"5", "a", "6", "6", "4", "2", "3", "1", "a", "d", "1", "d", "6", "c", "6", "f", "0", "0", "7", "d", "0", "d", "7", "2">>

\* another identifier, for an embedded id that differs from the one of the URL
OtherId ==
  <<"0", "1", "2", "3", "4", "5", "6", "7", "8", "9", "a", "b", "c", "d", "e", "f", "A", "B", "C", "D", "E", "F", "4", "2">>

UrlWithId == <<"h", "t", "t", "p", ":", "/", "/", "h", "/", "r", "/", "t", "e", "r", "i", "y", "a", "k", "i", "-">> \o SampleId \o <<"?", "x", "=", "1">>

UrlWithoutId == <<"h", "t", "t", "p", ":", "/", "/", "h", "/", "r", "/", "t", "e", "r", "i", "y", "a", "k", "i">>

BaseRecipe ==
  ("@type" :> PyStr(Recipe))
  @@ [name |-> PyStr(<<" ", "T", "e", "r", "i", "y", "a", "k", "i", " ", " ", "C", "h", "i", "c", "k", "e", "n">>),
      description |-> PyStr(<<"S", "o", "y", " ", "t", "o", "<>", "t", "h", "e", " ", "w", "o", "r", "l", "d">>),
      id |-> PyStr(<<"/", "r", "/">> \o SampleId),
      prepTime |-> PyStr(<<"P", "T", "1", "0", "M">>),
      cookTime |-> PyStr(<<"P", "T", "2", "5", "M">>),
      totalTime |-> PyStr(<<"P", "T", "3", "5", "M">>),
      recipeYield |-> PyInt(2),
      image |-> PyStr(<<" ", "i", ".", "j", "p", "g", " ">>),
      recipeIngredient |->
        PyList(<<PyStr(<<"1", " ", "T", "h", "u", "m", "b", " ", "G", "i", "n", "g", "e", "r">>),
                 PyStr(<<"2", " ", "t", "b", "s", "p", " ", "S", "o", "y", " ", "S", "a", "u", "c", "e", " ", "(", "C", "o", "n", "t", "a", "i", "n", "s", ":", " ", "S", "o", "y", ",", " ", "W", "h", "e", "a", "t", ")">>)>>),
      recipeInstructions |->
        PyList(<<PyDict(("@type" :> PyStr(HowToStep))
                        @@ [text |-> PyStr(<<" ", "W", "a", "s", "h", "<>", "a", "n", "d", " ", "d", "r", "y", ".", " ">>)]),
                 PyStr(<<"C", "o", "o", "k", " ", "r", "i", "c", "e", ".">>)>>),
      nutrition |->
        PyItems(<<Item(<<"c", "a", "l", "o", "r", "i", "e", "s">>, PyStr(<<"6", "4", "0", " ", "k", "c", "a", "l">>)),
                  Item(<<"f", "a", "t", "C", "o", "n", "t", "e", "n", "t">>, PyStr(<<"1", "5", " ", "g">>)),
                  Item(<<"s", "u", "g", "a", "r", "C", "o", "n", "t", "e", "n", "t">>, PyInt(7))>>),
      keywords |-> PyStr(<<"S", "p", "i", "c", "y", ",", " ", "E", "a", "s", "y">>),
      recipeCuisine |-> PyStr(<<"A", "s", "i", "a", "n">>),
      recipeCategory |-> PyStr(<<"m", "a", "i", "n", " ", "c", "o", "u", "r", "s", "e">>),
      datePublished |-> PyStr(<<" ", "2", "0", "1", "8", "-", "0", "1", "-", "2", "2", " ">>)]

\* the keys of the embedded data that the fields are read from
JsonKeys == {SELECTORS[f].json_ld_path[1] : f \in Fields}

Without(d, key) == [k \in DOMAIN d \ {key} |-> d[k]]

With(d, key, value) == [d EXCEPT ![key] = value]

\* embedded data with every field, and with one field missing
RecipeVariants == {BaseRecipe} \cup {Without(BaseRecipe, key) : key \in JsonKeys}

\* embedded data whose value for one field is unusual: a null, a value the
\* field's parser gives nothing for, another type
ValueVariants ==
  {With(BaseRecipe, "prepTime", v) :
     v \in {PyStr(<<"P", "T">>), PyStr(<<"s", "o", "o", "n">>), PyInt(0), PyInt(12), None}}
  \cup {With(BaseRecipe, "totalTime", v) : v \in {PyStr(<<"P", "T">>), None}}
  \cup {With(BaseRecipe, "recipeYield", v) :
          v \in {PyStr(<<"2", " ", "s", "e", "r", "v", "i", "n", "g", "s">>), PyStr(<<"m", "a", "n", "y">>), None}}
  \cup {With(BaseRecipe, "nutrition", v) :
          v \in {PyItems(<<>>), PyItems(<<Item(<<"c", "a", "l", "o", "r", "i", "e", "s">>, PyStr(<<"n", "/", "a">>))>>),
                 PyStr(<<"6", "4", "0">>), None,
                 PyItems(<<Item(<<"f", "a", "t", "C", "o", "n", "t", "e", "n", "t">>, PyStr(<<"1", "5", "g">>)),
                           Item(<<"s", "a", "t", "u", "r", "a", "t", "e", "d", "F", "a", "t", "C", "o", "n", "t", "e", "n", "t">>, PyStr(<<"3", " ", "g">>)),
                           Item(<<"s", "e", "r", "v", "i", "n", "g", "S", "i", "z", "e">>, PyStr(<<"2", "5", "0", " ", "g">>))>>),
                 PyItems(<<Item(<<"p", "r", "o", "t", "e", "i", "n", "C", "o", "n", "t", "e", "n", "t">>, PyStr(<<"a", "b", "o", "u", "t", " ", "1", "2", ".", "5", " ", "g">>)),
                           Item(<<"f", "i", "b", "e", "r", "C", "o", "n", "t", "e", "n", "t">>, PyStr(<<"n", "/", "a">>))>>),
                 PyItems(<<Item(<<"c", "a", "l", "o", "r", "i", "e", "s">>, PyStr(<<".">>))>>),
                 PyItems(<<Item(<<"s", "o", "d", "i", "u", "m", "C", "o", "n", "t", "e", "n", "t">>, PyStr(<<"a", "p", "p", "r", "o", "x", ".", " ", "1", "2", " ", "m", "g">>))>>)}}
  \cup {With(BaseRecipe, "id", v) :
          v \in {PyStr(<<"r", "e", "c", "i", "p", "e", "-", "7">>), PyStr(<<>>), PyInt(7),
                 PyStr(<<"h", "t", "t", "p", ":", "/", "/", "h", "/", "r", "/", "s", "o", "u", "p", "-">> \o OtherId \o <<"?", "y", "=", "2">>)}}
  \cup {With(BaseRecipe, "image", v) :
          v \in {PyDict([url |-> PyStr(<<"u", ".", "j", "p", "g">>)]),
                 PyList(<<PyDict([url |-> PyStr(<<"u", ".", "j", "p", "g">>)])>>)}}
  \cup {With(BaseRecipe, "keywords", v) :
          v \in {PyList(<<PyStr(<<" ", "S", "p", "i", "c", "y", " ">>), PyStr(<<>>)>>)}}

\* what the script tag holds: nothing, undecodable text, or a decoded value
Scripts ==
  {[t |-> "noscript"], [t |-> "invalid"], PyStr(Recipe), PyList(<<>>)}
  \cup {PyDict(d) : d \in RecipeVariants \cup ValueVariants}
  \cup {PyList(<<PyDict([name |-> PyStr(<<"x">>)]), PyDict(d)>>) : d \in RecipeVariants}
  \cup {PyDict(With(BaseRecipe, "@type", PyStr(<<"W", "e", "b">>))),
        PyList(<<PyDict(With(BaseRecipe, "@type", PyStr(<<"W", "e", "b">>)))>>)}

MaxStrategies == 4

\* the presentation markup: which strategy numbers find elements, whether
\* the elements found are blank, the nutrition container, and the strategy
\* numbers whose evaluation raises
Markups ==
  {[css |-> M, blank |-> FALSE, nutrition_parent |-> FALSE, nutrition_fields |-> {},
    missing |-> {}, raising |-> {}] :
     M \in SUBSET (1..MaxStrategies)}
  \cup {[css |-> M, blank |-> TRUE, nutrition_parent |-> TRUE, nutrition_fields |-> {1, 2},
         missing |-> {}, raising |-> {}] :
          M \in {{2}, 1..MaxStrategies}}
  \cup {[css |-> M, blank |-> FALSE, nutrition_parent |-> TRUE, nutrition_fields |-> N,
         missing |-> {}, raising |-> {}] :
          M \in {{}, 1..MaxStrategies}, N \in {{}, {1, 2}}}
  \cup {[css |-> M, blank |-> FALSE, nutrition_parent |-> FALSE, nutrition_fields |-> {},
         missing |-> {}, raising |-> R] :
          M \in {{3, 4}, 1..MaxStrategies},
          R \in {{1}, {2}, {1, 2}, {1, 3}, 1..MaxStrategies}}

Page(script, markup, url) ==
  [html |-> PyStr(<<"<>">>), url |-> url, script |-> script, css |-> markup.css,
   blank |-> markup.blank, nutrition_parent |-> markup.nutrition_parent,
   nutrition_fields |-> markup.nutrition_fields, missing |-> markup.missing,
   raising |-> markup.raising]

NoMarkup ==
  [css |-> {}, blank |-> FALSE, nutrition_parent |-> FALSE, nutrition_fields |-> {},
   missing |-> {}, raising |-> {}]

\* markup in which every strategy finds elements, except those of the fields
\* of missing
MarkupWithout(missing) ==
  [css |-> 1..MaxStrategies, blank |-> FALSE, nutrition_parent |-> FALSE,
   nutrition_fields |-> {}, missing |-> missing, raising |-> {}]

\* embedded data without any of the keys
RECURSIVE WithoutAll(_, _)
WithoutAll(d, keys) ==
  IF keys = {} THEN d
  ELSE LET key == CHOOSE k \in keys : TRUE
       IN  WithoutAll(Without(d, key), keys \ {key})

\* pages whose total time no source gives, with the prep and cook times given
\* by the embedded data, by the markup, by one each, or by one only
TimePages ==
  {Page(PyDict(WithoutAll(BaseRecipe, keys)), MarkupWithout(missing), UrlWithId) :
     keys \in {{"totalTime"}, {"totalTime", "cookTime"},
               {"totalTime", "cookTime", "prepTime"}},
     missing \in {{"total_time_minutes"},
                  {"total_time_minutes", "cook_time_minutes"},
                  {"total_time_minutes", "prep_time_minutes", "cook_time_minutes"}}}

\* the scripts that every markup is tried with
CoreScripts ==
  {[t |-> "noscript"], [t |-> "invalid"], PyDict(BaseRecipe),
   PyDict(Without(BaseRecipe, "recipeInstructions"))}

\* the markups that every script is tried with: nothing found, or every
\* strategy finding elements
CoreMarkups ==
  {markup \in Markups : markup.css = 1..MaxStrategies /\ markup.raising = {}}
  \cup {NoMarkup}

Pages ==
  {Page(script, markup, UrlWithId) : script \in Scripts, markup \in CoreMarkups}
  \cup {Page(script, markup, UrlWithId) : script \in CoreScripts, markup \in Markups}
  \cup {Page(script, NoMarkup, UrlWithoutId) :
          script \in {[t |-> "noscript"], PyDict(BaseRecipe),
                      PyDict(Without(BaseRecipe, "id"))}}
  \cup {[Page([t |-> "noscript"], NoMarkup, UrlWithId) EXCEPT !.html = PyStr(<<>>)]}
  \cup TimePages

-----------------------------------------------------------------------------
(* Duration inputs: the machine-duration codes and phrases explored *)

SecondsSamples == {0, 1, 29, 30, 59}

IsoHM(h, m) == PyStr(<<"P", "T">> \o ToStr(h) \o <<"H">> \o ToStr(m) \o <<"M">>)

IsoH(h) == PyStr(<<"P", "T">> \o ToStr(h) \o <<"H">>)

IsoM(m) == PyStr(<<"P", "T">> \o ToStr(m) \o <<"M">>)

IsoS(sec) == PyStr(<<"P", "T">> \o ToStr(sec) \o <<"S">>)

IsoHS(h, sec) == PyStr(<<"P", "T">> \o ToStr(h) \o <<"H">> \o ToStr(sec) \o <<"S">>)

IsoBare == PyStr(<<"P", "T">>)

TextMin(m) == PyStr(ToStr(m) \o <<" ", "m", "i", "n">>)

TextHrMin(h, m) ==
  PyStr(<<" ">> \o ToStr(h) \o <<" ", "H", "r", "<>">> \o ToStr(m)
        \o <<" ", "m", "i", "n", "u", "t", "e", "s">>)

TextBare(m) == PyStr(ToStr(m))

TextNone == PyStr(<<"s", "o", "o", "n">>)

DurationInputs ==
  {IsoHM(h, m) : h \in 0..MaxHours, m \in 0..MaxMinutes}
  \cup {IsoH(h) : h \in 0..MaxHours}
  \cup {IsoM(m) : m \in 0..MaxMinutes}
  \cup {IsoS(sec) : sec \in SecondsSamples}
  \cup {IsoHS(h, sec) : h \in 0..MaxHours, sec \in SecondsSamples}
  \cup {TextMin(m) : m \in 0..MaxMinutes}
  \cup {TextHrMin(h, m) : h \in 0..MaxHours, m \in 0..MaxMinutes}
  \cup {TextBare(m) : m \in 0..MaxMinutes}
  \cup {PyInt(m) : m \in 0..MaxMinutes}
  \cup {PyFloat(2 * h + 1, 2) : h \in 0..MaxHours}
  \cup {IsoBare, TextNone, PyStr(<<>>), PyStr(<<" ">>), None}

-----------------------------------------------------------------------------
(* The state that a specification does not use stays at its idle value *)

ScrapeIdle ==
  /\ page = None
  /\ attempt = 0
  /\ outcomes = <<>>
  /\ sleeps = <<>>
  /\ html_content = None
  /\ json_ld_data = None
  /\ scraped_data = <<>>
  /\ result = None
  /\ evaluated = {}

DurationIdle == duration_str = None /\ minutes = None

IngredientIdle == ingredient_elements_or_strings = None /\ parsed_ingredients = None

ScrapeVars ==
  <<page, attempt, outcomes, sleeps, html_content, json_ld_data, scraped_data,
    result, evaluated>>

-----------------------------------------------------------------------------
(* A call of parse_duration_to_minutes on one input *)

InitDuration ==
  /\ pc = "duration_call"
  /\ duration_str \in DurationInputs
  /\ minutes = None
  /\ ScrapeIdle
  /\ IngredientIdle

ParseDuration ==
  /\ pc = "duration_call"
  /\ minutes' = parse_duration_to_minutes(duration_str)
  /\ pc' = "duration_done"
  /\ UNCHANGED <<duration_str, ScrapeVars, IngredientVars>>

NextDuration == ParseDuration

DurSpec == InitDuration /\ [][NextDuration]_vars

-----------------------------------------------------------------------------
(* scraper.py: scrape_recipe_data *)

Init ==
  /\ pc = "start"
  /\ page \in Pages
  /\ attempt = 0
  /\ outcomes = <<>>
  /\ sleeps = <<>>
  /\ html_content = None
  /\ json_ld_data = None
  /\ scraped_data = <<>>
  /\ result = None
  /\ evaluated = {}
  /\ DurationIdle
  /\ IngredientIdle

Error(message) == [t |-> "error", error |-> message]

RECURSIVE Pow2(_)
Pow2(n) == IF n = 0 THEN 1 ELSE 2 * Pow2(n - 1)

\* line 123: the wait after failed attempt number n, in tenths of a second
Backoff(n) == RETRY_BACKOFF_TENTHS * Pow2(n)

\* a variant without the break of line 116: the loop goes on after a success
AfterSuccessNoBreak == "fetch"

\* line 116: break leaves the loop
AfterSuccess == "fetched"

\* range(MAX_RETRIES)
Attempts == 0..(MAX_RETRIES - 1)

\* a variant of the not-found test that treats 404 like any other status
NotFoundIgnored(status_code) == FALSE

\* line 119: the definitive not-found response
NotFound(status_code) == status_code = 404

\* line 107: the delay before the first request
Start ==
  /\ pc = "start"
  /\ sleeps' = Append(sleeps, REQUEST_DELAY_TENTHS)
  /\ pc' = "fetch"
  /\ UNCHANGED <<page, attempt, outcomes, html_content, json_ld_data,
                 scraped_data, result, evaluated, duration_str, minutes, IngredientVars>>

\* lines 120-124: a failed attempt that is not a 404: give up with the
\* message on the last attempt, else back off and go on to the next one
Retry(message) ==
  IF attempt = MAX_RETRIES - 1
  THEN /\ result' = Error(message)
       /\ pc' = "done"
       /\ UNCHANGED <<attempt, sleeps>>
  ELSE /\ sleeps' = Append(sleeps, Backoff(attempt))
       /\ attempt' = attempt + 1
       /\ UNCHANGED <<pc, result>>

\* lines 112-116: the request succeeds and the loop is left
FetchOk ==
  /\ pc = "fetch"
  /\ attempt \in Attempts
  /\ outcomes' = Append(outcomes, [kind |-> "ok", status_code |-> 200])
  /\ html_content' = page.html
  /\ pc' = AfterSuccess
  /\ UNCHANGED <<page, attempt, sleeps, json_ld_data, scraped_data, result,
                 evaluated, duration_str, minutes, IngredientVars>>

\* lines 117-120 and 124: raise_for_status raises HTTPError
FetchHttpError ==
  /\ pc = "fetch"
  /\ attempt \in Attempts
  /\ \E status_code \in {404, 500} :
       /\ outcomes' = Append(outcomes, [kind |-> "http", status_code |-> status_code])
       /\ IF NotFound(status_code)
          THEN /\ result' = Error("Recipe not found (404).")
               /\ pc' = "done"
               /\ UNCHANGED <<attempt, sleeps>>
          ELSE Retry("HTTP error after MAX_RETRIES attempts.")
  /\ UNCHANGED <<page, html_content, json_ld_data, scraped_data, evaluated,
                 duration_str, minutes, IngredientVars>>

\* lines 121-124: the request raises another RequestException
FetchRequestError ==
  /\ pc = "fetch"
  /\ attempt \in Attempts
  /\ outcomes' = Append(outcomes, [kind |-> "request", status_code |-> 0])
  /\ Retry("Request error after MAX_RETRIES attempts.")
  /\ UNCHANGED <<page, html_content, json_ld_data, scraped_data, evaluated,
                 duration_str, minutes, IngredientVars>>

\* the loop is over: left by break, or its range is used up
LoopOver == IF pc = "fetch" THEN attempt \notin Attempts ELSE pc = "fetched"

\* lines 126-138: no markup is an error; else the markup is parsed, the
\* embedded data looked up and the record started
Parse ==
  /\ LoopOver
  /\ IF ~Truthy(html_content)
     THEN /\ result' = Error("Could not retrieve HTML content.")
          /\ pc' = "done"
          /\ UNCHANGED <<json_ld_data, scraped_data>>
     ELSE /\ json_ld_data' = get_json_ld_data(page.script)
          /\ scraped_data' = [source_url |-> PyStr(page.url),
                              scraped_at_timestamp |-> PyStr(<<"n", "o", "w">>),
                              disclaimer |-> PyStr(<<"D">>)]
          /\ pc' = "name"
          /\ UNCHANGED result
  /\ UNCHANGED <<page, attempt, outcomes, sleeps, html_content, evaluated,
                 duration_str, minutes, IngredientVars>>

FetchVars == <<page, attempt, outcomes, sleeps, html_content, json_ld_data>>

\* get_value with the state's embedded data and markup
Value(field_key, opt) == get_value(json_ld_data, page, field_key, opt)

Asked(field_key, opt) == Queried(json_ld_data, page, field_key, opt)

\* the step leaves the record as data and goes on to the step next
GoOn(data, next, queried) ==
  /\ scraped_data' = data
  /\ evaluated' = evaluated \cup queried
  /\ pc' = next
  /\ UNCHANGED <<result, FetchVars, duration_str, minutes, IngredientVars>>

\* the step raises: the exception leaves scrape_recipe_data
Throw(data, type, queried) ==
  /\ scraped_data' = data
  /\ evaluated' = evaluated \cup queried
  /\ result' = Raise(type)
  /\ pc' = "done"
  /\ UNCHANGED <<FetchVars, duration_str, minutes, IngredientVars>>

\* lines 174-175
ResolveName ==
  /\ pc = "name"
  /\ GoOn([name |-> Value("name", Default),
           description |-> Value("description", Default)] @@ scraped_data,
          "external_id",
          Asked("name", Default) \cup Asked("description", Default))

\* lines 177-192
ResolveExternalId ==
  /\ pc = "external_id"
  /\ GoOn([external_id |-> ExternalId(page.url, Value("external_id", Raw))]
            @@ scraped_data,
          "times", Asked("external_id", Raw))

Duration == [Default EXCEPT !.specific_json_parser = "parse_duration_to_minutes"]

\* lines 196-202: the three times and the backfill of the total
ResolveTimes ==
  /\ pc = "times"
  /\ LET Times(prep, cook, total) ==
           [prep_time_minutes |-> prep, cook_time_minutes |-> cook,
            total_time_minutes |-> total] @@ scraped_data
         Backfill(prep, cook, total, queried) ==
           IF total = None /\ prep # None /\ cook # None
           THEN IF prep.t # cook.t
                THEN Throw(Times(prep, cook, total), "TypeError", queried)
                ELSE IF prep.t = "int"
                THEN GoOn(Times(prep, cook, PyInt(prep.v + cook.v)), "servings", queried)
                ELSE GoOn(Times(prep, cook, PyStr(prep.v \o cook.v)), "servings", queried)
           ELSE GoOn(Times(prep, cook, total), "servings", queried)
     IN  Backfill(Value("prep_time_minutes", Duration),
                  Value("cook_time_minutes", Duration),
                  Value("total_time_minutes", Duration),
                  Asked("prep_time_minutes", Duration)
                  \cup Asked("cook_time_minutes", Duration)
                  \cup Asked("total_time_minutes", Duration))

Servings == [Default EXCEPT !.specific_json_parser = "parse_servings_from_json"]

\* line 205
ResolveServings ==
  /\ pc = "servings"
  /\ GoOn([servings |-> Value("servings", Servings)] @@ scraped_data,
          "image", Asked("servings", Servings))

\* lines 208-216
ResolveImage ==
  /\ pc = "image"
  /\ LET Store(image_url, queried) ==
           IF image_url.t = "unset" THEN GoOn(scraped_data, "ingredients", queried)
           ELSE IF ~Truthy(image_url)
           THEN GoOn([image_url |-> image_url] @@ scraped_data, "ingredients", queried)
           ELSE IF image_url.t # "str"
           THEN Throw([image_url |-> image_url] @@ scraped_data,
                      "AttributeError", queried)
           ELSE GoOn([image_url |-> PyStr(Strip(image_url.v))] @@ scraped_data,
                     "ingredients", queried)
     IN  Store(ImageReference(Value("image_url", Raw)), Asked("image_url", Raw))

IngredientList == [Raw EXCEPT !.is_list = TRUE]

\* lines 221-225
ResolveIngredients ==
  /\ pc = "ingredients"
  /\ LET Store(parsed, queried) ==
           IF parsed.t = "raise" THEN Throw(scraped_data, parsed.type, queried)
           ELSE GoOn([ingredients |-> PyList(parsed.ingredients),
                      allergens_extracted_from_ingredients |-> parsed.allergens]
                       @@ scraped_data,
                     "steps", queried)
         Parsed(found, queried) ==
           Store(parse_ingredient_strings_list(IF Truthy(found) THEN found.v ELSE <<>>),
                 queried)
     IN  Parsed(Value("ingredients", IngredientList),
                Asked("ingredients", IngredientList))

StepList ==
  [Default EXCEPT !.is_list = TRUE,
                  !.json_list_item_processor = "process_json_steps",
                  !.css_list_item_processor = "parse_step_strings_list"]

\* line 239
ResolveSteps ==
  /\ pc = "steps"
  /\ GoOn([steps |-> Value("steps", StepList)] @@ scraped_data,
          "nutrition", Asked("steps", StepList))

\* the strategies of the nutrition fallback that are queried: the parent
\* container, and under it each of the nutrition selectors
QueriedByNutrition(soup) ==
  {<<"css_selectors_parent", 0>>}
  \cup IF soup.nutrition_parent
       THEN {<<"css_fields", k>> : k \in 1..Len(NUTRITION_CSS_FIELDS)}
       ELSE {}

\* lines 243-273: the embedded nutrition object, then the fallback under
\* the parent container when the record's nutrition_info is empty
ResolveNutrition ==
  /\ pc = "nutrition"
  /\ LET Fallback(data, css_nutrition_data, queried) ==
           IF css_nutrition_data.t = "raise"
           THEN Throw(data, css_nutrition_data.type, queried)
           ELSE GoOn([nutrition_info |-> css_nutrition_data] @@ data, "tags", queried)
         Check(data) ==
           IF "nutrition_info" \notin DOMAIN data THEN Throw(data, "KeyError", {})
           ELSE IF Truthy(data.nutrition_info) THEN GoOn(data, "tags", {})
           ELSE IF ~page.nutrition_parent
           THEN GoOn(data, "tags", QueriedByNutrition(page))
           ELSE Fallback(data, CssNutrition(page, Len(NUTRITION_CSS_FIELDS)),
                         QueriedByNutrition(page))
         Store(parsed_nutrition) ==
           IF parsed_nutrition.t = "raise"
           THEN Throw(scraped_data, parsed_nutrition.type, {})
           ELSE Check([nutrition_info |-> parsed_nutrition] @@ scraped_data)
         Embedded(nutrition_json) ==
           IF nutrition_json.t = "dict" /\ "items" \in DOMAIN nutrition_json
           THEN Store(ParsedNutrition(nutrition_json.items, Len(nutrition_json.items)))
           ELSE Check(scraped_data)
     IN  Embedded(Value("nutrition_info", Raw))

\* lines 277-282
ResolveTags ==
  /\ pc = "tags"
  /\ GoOn([tags_array |-> TagsArray(Value("tags_array", Raw))] @@ scraped_data,
          "rest", Asked("tags_array", Raw))

DateText == [Default EXCEPT !.cleaning_func = "strip"]

\* lines 284-291
ResolveRest ==
  /\ pc = "rest"
  /\ GoOn([cuisine |-> Value("cuisine", Default),
           category |-> Value("category", Default),
           date_published |-> Value("date_published", DateText),
           prep_time_iso |-> Value("prep_time_iso", Raw),
           cook_time_iso |-> Value("cook_time_iso", Raw),
           total_time_iso |-> Value("total_time_iso", Raw)] @@ scraped_data,
          "return",
          Asked("cuisine", Default) \cup Asked("category", Default)
          \cup Asked("date_published", DateText) \cup Asked("prep_time_iso", Raw)
          \cup Asked("cook_time_iso", Raw) \cup Asked("total_time_iso", Raw))

\* lines 294-299: the missing fields are logged and the record returned
Return ==
  /\ pc = "return"
  /\ result' = [t |-> "record", data |-> scraped_data]
  /\ pc' = "done"
  /\ UNCHANGED <<FetchVars, scraped_data, evaluated, duration_str, minutes, IngredientVars>>

Next ==
  \/ Start
  \/ FetchOk
  \/ FetchHttpError
  \/ FetchRequestError
  \/ Parse
  \/ ResolveName
  \/ ResolveExternalId
  \/ ResolveTimes
  \/ ResolveServings
  \/ ResolveImage
  \/ ResolveIngredients
  \/ ResolveSteps
  \/ ResolveNutrition
  \/ ResolveTags
  \/ ResolveRest
  \/ Return

Spec == Init /\ [][Next]_vars

-----------------------------------------------------------------------------
(* A call of parse_ingredient_strings_list on one list of lines *)

\* number tokens with the value they denote, as numerator and denominator
IngredientQuantities ==
  {[token |-> <<"1">>, num |-> 1, den |-> 1],
   [token |-> <<"2", ".", "5">>, num |-> 5, den |-> 2],
   [token |-> <<"1", "/", "2">>, num |-> 1, den |-> 2]}

\* every unit of the pattern, as written there and with a capital
UnitTokens ==
  {UNIT_WORDS[n] : n \in 1..Len(UNIT_WORDS)}
  \cup {Capitalize(UNIT_WORDS[n]) : n \in 1..Len(UNIT_WORDS)}

IngredientNames == {<<"G", "i", "n", "g", "e", "r">>, <<"r", "e", "d", " ", "o", "n", "i", "o", "n">>}

\* the lines '<quantity> <unit> <name>'
UnitLineParts ==
  [quantity : IngredientQuantities, unit : UnitTokens, name : IngredientNames]

UnitLine(parts) ==
  parts.quantity.token \o <<" ">> \o parts.unit \o <<" ">> \o parts.name

\* what a disclosure lists, with the canonical forms of the listed items
Disclosures ==
  {[listed |-> <<"S", "o", "y", ",", " ", "W", "h", "e", "a", "t">>,
    canonical |-> {<<"S", "o", "y">>, <<"W", "h", "e", "a", "t">>}],
   [listed |-> <<"s", "o", "y", ",", " ", "W", "H", "E", "A", "T", ".">>,
    canonical |-> {<<"S", "o", "y">>, <<"W", "h", "e", "a", "t">>}],
   [listed |-> <<"T", "r", "e", "e", " ", "N", "u", "t", "s", ",", "M", "i", "l", "k">>,
    canonical |-> {<<"T", "r", "e", "e", " ", "n", "u", "t", "s">>, <<"M", "i", "l", "k">>}],
   [listed |-> <<"E", "g", "g", " ", "a", "n", "d", " ", "F", "i", "s", "h">>,
    canonical |-> {<<"E", "g", "g">>, <<"F", "i", "s", "h">>}],
   [listed |-> <<"M", "i", "l", "k">>,
    canonical |-> {<<"M", "i", "l", "k">>}]}

DisclosureText(listed) ==
  <<" ", "(", "C", "o", "n", "t", "a", "i", "n", "s", ":", " ">> \o listed \o <<")">>

\* the lines carrying a disclosure: before it a quantity, unit and name, a
\* bare name or nothing; after it nothing or more text
DisclosureLineParts ==
  [before : {<<"1", " ", "c", "u", "p", " ", "o", "a", "t", " ", "m", "i", "l", "k">>,
             <<"T", "o", "f", "u">>,
             <<>>},
   disclosure : Disclosures,
   after : {<<>>, <<",", " ", "c", "h", "o", "p", "p", "e", "d">>}]

DisclosureLine(parts) ==
  parts.before \o DisclosureText(parts.disclosure.listed) \o parts.after

\* the lines of a quantity and a word of common_units_check, alone or followed
\* by more text
SecondaryLineParts ==
  [quantity : {<<"2">>},
   word : common_units_check \cup {Capitalize(w) : w \in common_units_check},
   rest : {<<>>, <<"c", "h", "o", "p", "p", "e", "d">>}]

SecondaryLine(parts) ==
  parts.quantity \o <<" ">> \o parts.word
  \o (IF parts.rest = <<>> THEN <<>> ELSE <<" ">> \o parts.rest)

\* quantity tokens the pattern can capture: decimals, fractions, mixed
\* numbers, runs of digits, dots and slashes, words
QuantityTokens ==
  {<<"1", ".", "5">>,
   <<"1", "/", "2">>,
   <<"3", "/", "4">>,
   <<"1", " ", "1", "/", "2">>,
   <<"2", "-", "1", "/", "4">>,
   <<"1", "0">>,
   <<"1", "/", "0">>,
   <<"1", " ", "1", "/", "0">>,
   <<"2", "-", "3", "/", "0">>,
   <<"1", ".", "2", ".", "3">>,
   <<"1", "/", "2", "/", "3">>,
   <<".", ".">>,
   <<"/">>,
   <<"1", "/">>,
   <<"a">>,
   <<"a", "n">>,
   <<"t", "e", "n">>,
   <<"T", "w", "o">>,
   <<"s", "o", "m", "e">>,
   <<"s", "e", "v", "e", "r", "a", "l">>,
   <<"p", "i", "n", "c", "h">>,
   <<"d", "a", "s", "h", "e", "s">>,
   <<"a", " ", "f", "e", "w">>,
   <<"t", "o", " ", "t", "a", "s", "t", "e">>}

QuantityLine(token) == token \o <<" ", "c", "u", "p", " ", "s", "u", "g", "a", "r">>

\* lines with blanks and markup around and inside the text
RawLines ==
  {<<" ", " ", "2", " ", " ", " ", "c", "u", "p", "s", " ", " ", "f", "l", "o", "u", "r", " ">>,
   <<"2", " ", "c", "u", "p", "s", " ", "<>", "f", "l", "o", "u", "r", "<>">>,
   <<"<>", "2", " ", "c", "l", "o", "v", "e", "s", "<>", " ", "g", "a", "r", "l", "i", "c">>,
   <<"S", "a", "l", "t", " ">>,
   <<" ", "1", " ", "c", "u", "p", " ", "m", "i", "l", "k", " ", " ", "(", "C", "o", "n", "t", "a", "i", "n", "s", ":", " ", "M", "i", "l", "k", ")", " ">>,
   <<" ">>,
   <<"<>">>}

\* bare names: lines whose first word is no quantity token
BareNames ==
  {<<"A", "v", "o", "c", "a", "d", "o">>,
   <<"T", "e", "n", "d", "e", "r", "l", "o", "i", "n">>,
   <<"S", "a", "l", "t">>,
   <<"O", "n", "i", "o", "n">>,
   <<"G", "r", "e", "e", "n", " ", "b", "e", "a", "n", "s">>,
   <<"S", "e", "s", "a", "m", "e", " ", "o", "i", "l">>}

\* the lines '<quantity> <name>' whose word after the quantity is no unit
CountedNames ==
  {[quantity |-> <<"2">>, name |-> <<"l", "a", "r", "g", "e", " ", "o", "n", "i", "o", "n", "s">>],
   [quantity |-> <<"3">>, name |-> <<"g", "r", "e", "e", "n", " ", "o", "n", "i", "o", "n", "s">>],
   [quantity |-> <<"1">>, name |-> <<"e", "g", "g">>],
   [quantity |-> <<"2">>, name |-> <<"r", "e", "d", " ", "p", "e", "p", "p", "e", "r", "s">>]}

CountedLine(parts) == parts.quantity \o <<" ">> \o parts.name

IngredientLines ==
  {UnitLine(parts) : parts \in UnitLineParts}
  \cup {DisclosureLine(parts) : parts \in DisclosureLineParts}
  \cup {SecondaryLine(parts) : parts \in SecondaryLineParts}
  \cup {QuantityLine(token) : token \in QuantityTokens}
  \cup RawLines
  \cup BareNames
  \cup {CountedLine(parts) : parts \in CountedNames}

\* the lists handed to the parser: one line as a string or as an element, or
\* two lines that both carry a disclosure
IngredientLists ==
  {<<PyStr(line)>> : line \in IngredientLines}
  \cup {<<Element(line)>> : line \in RawLines}
  \cup {<<PyStr(DisclosureLine(first)), PyStr(DisclosureLine(second))>> :
          first \in {parts \in DisclosureLineParts : parts.after = <<>> /\ parts.before = <<>>},
          second \in {parts \in DisclosureLineParts : parts.after = <<>> /\ parts.before = <<>>}}
  \cup {<<>>, <<None, PyStr(<<"S", "a", "l", "t">>)>>}

InitIngredients ==
  /\ pc = "ingredients_call"
  /\ ingredient_elements_or_strings \in IngredientLists
  /\ parsed_ingredients = None
  /\ ScrapeIdle
  /\ DurationIdle

ParseIngredients ==
  /\ pc = "ingredients_call"
  /\ parsed_ingredients' = parse_ingredient_strings_list(ingredient_elements_or_strings)
  /\ pc' = "ingredients_done"
  /\ UNCHANGED <<ingredient_elements_or_strings, duration_str, minutes, ScrapeVars>>

NextIngredients == ParseIngredients

IngSpec == InitIngredients /\ [][NextIngredients]_vars

-----------------------------------------------------------------------------
(* Properties of the fetch loop *)

\* an error value: a message and nothing else
ErrorValue(r) == r.t = "error" /\ DOMAIN r = {"t", "error"} /\ r.error # ""

Failed(k) == outcomes[k].kind # "ok"

\* C5: a 404 response on any attempt ends the call at once: it is the last
\* request, no backoff sleep follows it, and the result is an error value
\* with a message and no record fields.
C5_NotFoundEndsTheCall ==
  \A k \in 1..Len(outcomes) :
    outcomes[k].status_code = 404 =>
      /\ k = Len(outcomes)
      /\ Len(sleeps) = k
      /\ pc = "done"
      /\ ErrorValue(result)
      /\ scraped_data = <<>>

\* a 404 answers the second request, after one failed attempt and its backoff
C5_Witness ==
  /\ Len(outcomes) = 2
  /\ outcomes[2].status_code = 404
  /\ sleeps = <<REQUEST_DELAY_TENTHS, Backoff(0)>>
  /\ pc = "done"

\* the part of C6 that holds in every state
C6_FetchLoopIsBounded ==
  /\ Len(outcomes) <= MAX_RETRIES
  /\ \A k \in 1..(Len(outcomes) - 1) : Failed(k)
  /\ \A k \in 2..Len(sleeps) : sleeps[k] = Backoff(k - 2) /\ Failed(k - 1)
  /\ \A k \in 2..(Len(sleeps) - 1) : sleeps[k] < sleeps[k + 1]
  /\ \A a \in Attempts : Backoff(a) < Backoff(a + 1)
  /\ (pc = "done" /\ (\A k \in 1..Len(outcomes) : Failed(k) \/ ~Truthy(page.html))) =>
       /\ ErrorValue(result)
       /\ json_ld_data = None
       /\ scraped_data = <<>>
       /\ evaluated = {}

\* the positions of the call, in the order the code goes through them
Positions ==
  <<"start", "fetch", "fetched", "name", "external_id", "times", "servings",
    "image", "ingredients", "steps", "nutrition", "tags", "rest", "return", "done">>

\* how far the call has got: its position, and within the loop its attempt
Progress ==
  (CHOOSE i \in 1..Len(Positions) : Positions[i] = pc) * (MAX_RETRIES + 1) + attempt

\* the steps of the delay, the loop and the check that follows it
FetchStep == Start \/ FetchOk \/ FetchHttpError \/ FetchRequestError \/ Parse

\* C6: for every sequence of fetch outcomes at most MAX_RETRIES requests are
\* issued, none after the first success, every backoff follows a failed
\* attempt and is longer than the one before, and the call terminates: every
\* step takes it further towards its end, of which it is a bounded number of
\* steps away, and before the fields are resolved it can always take a step.
\* When every attempt failed or the markup fetched is empty the result is an
\* error value with a message and no record fields, and nothing was parsed.
C6_BoundedRetriesAndTermination ==
  /\ []C6_FetchLoopIsBounded
  /\ [][Progress' > Progress]_vars
  /\ [](Progress <= Len(Positions) * (MAX_RETRIES + 1) + MAX_RETRIES)
  /\ [](pc \in {"start", "fetch", "fetched"} => ENABLED FetchStep)

\* every attempt failed without a 404: one backoff between the two requests
C6_Witness ==
  /\ pc = "done"
  /\ Len(outcomes) = MAX_RETRIES
  /\ \A k \in 1..Len(outcomes) : Failed(k) /\ outcomes[k].status_code # 404
  /\ sleeps = <<REQUEST_DELAY_TENTHS, Backoff(0)>>
  /\ ErrorValue(result)

-----------------------------------------------------------------------------
(* Properties of the field resolution *)

Returned == pc = "done" /\ result.t = "record"

\* some fallback strategy of the field was queried by get_value
FallbackQueried(field_key) == \E q \in evaluated : q[1] = field_key

\* the field's parser gives nothing for the field's raw embedded value
ParserGivesNothing(field_key) ==
  IF field_key = "servings"
  THEN parse_servings_from_json(RawJsonValue(json_ld_data, field_key)) = None
  ELSE parse_duration_to_minutes(RawJsonValue(json_ld_data, field_key)) = None

\* C1: in get_value, for every field whose embedded path resolves to a
\* non-null raw value none of the field's fallback strategies is queried;
\* when the field's parser gives nothing for the raw value the field ends
\* absent instead of falling through.
C1_EmbeddedValueStopsResolution ==
  \A field_key \in Fields :
    RawJsonValue(json_ld_data, field_key) # None =>
      /\ ~FallbackQueried(field_key)
      /\ (/\ Returned
          /\ field_key \in {"prep_time_minutes", "cook_time_minutes", "servings"}
          /\ ParserGivesNothing(field_key)) => result.data[field_key] = None

\* a record is returned for a page whose embedded prepTime is a code the
\* parser gives nothing for, while every fallback of the field would find an
\* element with a duration
C1_Witness ==
  /\ Returned
  /\ RawJsonValue(json_ld_data, "prep_time_minutes") # None
  /\ ParserGivesNothing("prep_time_minutes")
  /\ page.css = 1..MaxStrategies
  /\ ~page.blank
  /\ extract_data_point(page, "prep_time_minutes", "clean_text") # None
  /\ result.data["prep_time_minutes"] = None

MarkupObtained == Truthy(html_content)

\* the embedded data is present and lacks exactly one key of the full recipe
LacksOneField ==
  /\ json_ld_data # None
  /\ \E key \in JsonKeys : json_ld_data = PyDict(Without(BaseRecipe, key))

\* C2: for every page whose embedded data is present but lacks one declared
\* field, scrape_recipe_data raises no exception and returns a record.
C2_MissingFieldGivesRecord == (pc = "done" /\ MarkupObtained /\ LacksOneField) => Returned

\* C3: when the page has no eligible embedded-data block, or the block is not
\* valid JSON, nothing is raised and a record resolved by the fallbacks alone
\* is returned.
C3_NoEmbeddedDataGivesRecord ==
  (pc = "done" /\ MarkupObtained /\ page.script.t \in {"noscript", "invalid"}) =>
    /\ json_ld_data = None
    /\ Returned

\* the markup gives no field through any strategy
NothingFound == page.css = {} /\ ~page.nutrition_parent

\* C4: when markup is obtained but yields neither embedded data nor any
\* field, the result is an error value with a message and no record fields.
C4_NothingFoundGivesError ==
  (pc = "done" /\ MarkupObtained /\ json_ld_data = None /\ NothingFound) =>
    ErrorValue(result)

ListFields == {"ingredients", "steps", "tags_array"}

\* a list strategy of the field finds elements that carry text
ListSelectorMatches(field_key) ==
  /\ ~page.blank
  /\ \E i \in 1..Len(SELECTORS[field_key].css_selectors) :
       /\ SELECTORS[field_key].css_selectors[i].type = "css_list"
       /\ Matches(page, field_key, i)

\* C7: when a list-valued field's embedded lookup is absent and one of its
\* list selectors matches elements, the field's value is built from the
\* matched elements rather than left empty.
C7_ListFallbackBuildsValue ==
  \A field_key \in ListFields :
    (/\ Returned
     /\ RawJsonValue(json_ld_data, field_key) = None
     /\ ListSelectorMatches(field_key)) =>
      /\ result.data[field_key].t = "list"
      /\ result.data[field_key].v # <<>>

\* C10: in every record returned, the three times and servings are each
\* absent or an integer, whichever strategy supplied the value.
C10_TimesAndServingsAreIntegers ==
  Returned =>
    \A field_key \in TimeFields \cup {"servings"} :
      result.data[field_key].t \in {"none", "int"}

-----------------------------------------------------------------------------
(* Properties of the nutrition mapping *)

\* the nine canonical nutrient keys
CanonicalKeys == {NUTRITION_CSS_FIELDS[k] : k \in 1..Len(NUTRITION_CSS_FIELDS)}

\* C14: in every returned record each key of nutrition_info is one of the
\* nine canonical keys, whether it came from the embedded object or from the
\* fallback.
C14_NutritionKeysAreCanonical ==
  Returned => DOMAIN result.data.nutrition_info.v \subseteq CanonicalKeys

\* the embedded nutrition value is a mapping of raw keys to raw values
EmbeddedNutritionIsMapping ==
  /\ json_ld_data # None
  /\ Value("nutrition_info", Raw).t = "dict"
  /\ "items" \in DOMAIN Value("nutrition_info", Raw)

\* the call ended with an exception raised while nutrition_info was resolved:
\* the steps are in the record and the tags are not
NutritionRaised ==
  /\ pc = "done"
  /\ result.t = "raise"
  /\ "steps" \in DOMAIN scraped_data
  /\ "tags_array" \notin DOMAIN scraped_data

\* C15: whatever the raw values of the embedded nutrition mapping are, a
\* value without a valid number (a lone '.' included) only leaves its entry
\* out: resolving nutrition_info never raises and never aborts the record.
C15_NonNumericValueNeverRaises ==
  (pc = "done" /\ EmbeddedNutritionIsMapping) => ~NutritionRaised

-----------------------------------------------------------------------------
(* Properties of the external id and of the total time *)

\* the external_id step has been taken
ExternalIdResolved == "external_id" \in DOMAIN scraped_data

\* the identifier of the embedded data
EmbeddedId == RawJsonValue(json_ld_data, "external_id")

\* the trailing token of a text's last path segment, <<>> without one
TrailingToken(text) == IdMatch(LastSegment(text))

\* C16: the external id is the trailing token of the embedded identifier when
\* that is a string ending with one; otherwise the embedded identifier itself
\* when it is a non-empty string; otherwise the trailing token of the source
\* URL; otherwise absent.
C16_ExternalIdPrecedence ==
  ExternalIdResolved
    => scraped_data.external_id
         = IF EmbeddedId.t = "str" /\ TrailingToken(EmbeddedId.v) # <<>>
           THEN PyStr(TrailingToken(EmbeddedId.v))
           ELSE IF EmbeddedId.t = "str" /\ EmbeddedId.v # <<>> THEN EmbeddedId
           ELSE IF TrailingToken(page.url) # <<>> THEN PyStr(TrailingToken(page.url))
           ELSE None

\* the nutrition step has been taken, by going on or by raising
NutritionStepTaken ==
  /\ pc \in {"tags", "rest", "return", "done"}
  /\ "steps" \in DOMAIN scraped_data

\* what the primary source yields: the mapping parsed from the embedded
\* object, an exception, or None when the embedded value is no mapping
PrimaryNutrition ==
  IF EmbeddedNutritionIsMapping
  THEN ParsedNutrition(Value("nutrition_info", Raw).items,
                       Len(Value("nutrition_info", Raw).items))
  ELSE None

FallbackAttempted == \E q \in evaluated : q[1] \in {"css_selectors_parent", "css_fields"}

\* C17: when the embedded nutrition is missing, is no mapping or yields no
\* usable key, the fallback under the parent container is attempted and the
\* step ends with a mapping; when it yields a usable key the fallback is not
\* attempted and nutrition_info is exactly the primary mapping.
C17_FallbackOnlyWhenPrimaryIsEmpty ==
  NutritionStepTaken
    => IF PrimaryNutrition.t = "raise" THEN TRUE
       ELSE IF PrimaryNutrition.t = "dict" /\ Truthy(PrimaryNutrition)
       THEN /\ ~FallbackAttempted
            /\ scraped_data.nutrition_info = PrimaryNutrition
       ELSE /\ FallbackAttempted
            /\ "nutrition_info" \in DOMAIN scraped_data
            /\ scraped_data.nutrition_info.t = "dict"
            /\ ~NutritionRaised

\* the times step has been taken, by going on or by raising
TimesResolved == "prep_time_minutes" \in DOMAIN scraped_data

\* what get_value resolves for a time field
ResolvedTime(field_key) == Value(field_key, Duration)

\* C20: when the total time was not resolved and the prep and cook times are
\* both present, the total is their arithmetic sum; when it was not resolved
\* and one of them is absent it stays absent; a resolved total is left as it
\* is; the prep and cook times are never modified.
C20_TotalIsBackfilledWithTheSum ==
  TimesResolved
    => /\ scraped_data.prep_time_minutes = ResolvedTime("prep_time_minutes")
       /\ scraped_data.cook_time_minutes = ResolvedTime("cook_time_minutes")
       /\ scraped_data.total_time_minutes
            = IF ResolvedTime("total_time_minutes") # None
              THEN ResolvedTime("total_time_minutes")
              ELSE IF \/ ResolvedTime("prep_time_minutes") = None
                      \/ ResolvedTime("cook_time_minutes") = None
              THEN None
              ELSE IF /\ ResolvedTime("prep_time_minutes").t = "int"
                      /\ ResolvedTime("cook_time_minutes").t = "int"
              THEN PyInt(ResolvedTime("prep_time_minutes").v
                         + ResolvedTime("cook_time_minutes").v)
              ELSE [t |-> "no sum"]

-----------------------------------------------------------------------------
(* Properties of parse_ingredient_strings_list *)

\* the call has returned for the list of the one line
ParsedLine(line) ==
  /\ pc = "ingredients_done"
  /\ ingredient_elements_or_strings = <<PyStr(line)>>

\* the call returned one ingredient
OneIngredient ==
  /\ parsed_ingredients.t = "ok"
  /\ Len(parsed_ingredients.ingredients) = 1

\* v is the number num / den
IsNumber(v, num, den) ==
  \/ v.t = "int" /\ v.v * den = num
  \/ v.t = "float" /\ v.num * den = num * v.den

\* C11: a line '<quantity> <unit> <name>' whose quantity is a number token
\* and whose unit is any word of the unit vocabulary is parsed into the value
\* of the quantity, that exact unit token and that exact name.
C11_UnitLineGivesItsThreeParts ==
  \A parts \in UnitLineParts :
    ParsedLine(UnitLine(parts))
      => /\ OneIngredient
         /\ IsNumber(parsed_ingredients.ingredients[1].quantity,
                     parts.quantity.num, parts.quantity.den)
         /\ parsed_ingredients.ingredients[1].unit = PyStr(parts.unit)
         /\ parsed_ingredients.ingredients[1].name = PyStr(parts.name)

\* C12: the full_text of an ingredient is the input line as it was received,
\* with its blanks, its markup and its allergen disclosure.
C12_FullTextIsTheInputLine ==
  ( /\ pc = "ingredients_done"
    /\ Len(ingredient_elements_or_strings) = 1
    /\ ingredient_elements_or_strings[1].t = "str"
    /\ OneIngredient )
    => parsed_ingredients.ingredients[1].full_text = ingredient_elements_or_strings[1]

\* the text w occurs in the value v (None holds no text)
ContainsText(v, w) == v.t = "str" /\ \E i \in 1..Len(v.v) : HasAt(v.v, i, w)

\* the ingredient got the allergens of the disclosure, they are in the
\* aggregated set, and its name holds no disclosure
DisclosureParsed(ingredient, overall_allergens, disclosure) ==
  /\ ingredient.allergens_in_item = disclosure.canonical
  /\ disclosure.canonical \subseteq overall_allergens
  /\ ~ContainsText(ingredient.name, <<"(", "C", "o", "n", "t", "a", "i", "n", "s", ":">>)
  /\ ~ContainsText(ingredient.name, <<")">>)

\* the disclosure lines that make the lists of two lines
BareDisclosures ==
  {parts \in DisclosureLineParts : parts.before = <<>> /\ parts.after = <<>>}

\* C13: a line carrying '(Contains: A, B)' gets exactly the canonical forms
\* of the listed items as its allergens, they appear in the aggregated
\* allergen set, and the name no longer contains the parenthetical.
C13_DisclosureGivesAllergensAndCleanName ==
  /\ \A parts \in DisclosureLineParts :
       ParsedLine(DisclosureLine(parts))
         => /\ OneIngredient
            /\ DisclosureParsed(parsed_ingredients.ingredients[1],
                                parsed_ingredients.allergens, parts.disclosure)
  /\ \A first \in BareDisclosures, second \in BareDisclosures :
       ( /\ pc = "ingredients_done"
         /\ ingredient_elements_or_strings
              = <<PyStr(DisclosureLine(first)), PyStr(DisclosureLine(second))>> )
         => /\ parsed_ingredients.t = "ok"
            /\ Len(parsed_ingredients.ingredients) = 2
            /\ DisclosureParsed(parsed_ingredients.ingredients[1],
                                parsed_ingredients.allergens, first.disclosure)
            /\ DisclosureParsed(parsed_ingredients.ingredients[2],
                                parsed_ingredients.allergens, second.disclosure)

\* a line '1 cup oat milk (Contains: soy, WHEAT.), chopped' has been parsed
\* into the allergens Soy and Wheat and a name without the disclosure
C13_Witness ==
  \E parts \in DisclosureLineParts :
    /\ parts.before # <<>>
    /\ parts.after # <<>>
    /\ parts.disclosure.listed = <<"s", "o", "y", ",", " ", "W", "H", "E", "A", "T", ".">>
    /\ ParsedLine(DisclosureLine(parts))
    /\ OneIngredient
    /\ parsed_ingredients.ingredients[1].allergens_in_item
         = {<<"S", "o", "y">>, <<"W", "h", "e", "a", "t">>}
    /\ parsed_ingredients.ingredients[1].quantity # None
    /\ ContainsText(parsed_ingredients.ingredients[1].name, parts.after)

\* the pattern captured a quantity of the line and no unit
UnitSlotEmpty(line) ==
  /\ PatternMatch(line).matched
  /\ PatternMatch(line).quantity # <<>>
  /\ PatternMatch(line).unit = <<>>

\* C18: when a quantity was captured, the unit slot matched nothing and the
\* first word of the remaining text is in the secondary vocabulary, that
\* word is the unit and the name is the text after it, absent when nothing
\* follows.
C18_SecondaryWordBecomesUnit ==
  \A parts \in SecondaryLineParts :
    (ParsedLine(SecondaryLine(parts)) /\ UnitSlotEmpty(SecondaryLine(parts)))
      => /\ OneIngredient
         /\ IsNumber(parsed_ingredients.ingredients[1].quantity, ToInt(parts.quantity), 1)
         /\ parsed_ingredients.ingredients[1].unit = PyStr(parts.word)
         /\ parsed_ingredients.ingredients[1].name
              = IF parts.rest = <<>> THEN None ELSE PyStr(parts.rest)

\* C19: for every quantity token the pattern can capture, the conversion
\* gives a number or keeps the token as text: the call does not raise and the
\* ingredient and its quantity are not dropped.
C19_QuantityConversionNeverRaises ==
  \A token \in QuantityTokens :
    ParsedLine(QuantityLine(token))
      => /\ OneIngredient
         /\ parsed_ingredients.ingredients[1].quantity.t \in {"int", "float", "str"}

-----------------------------------------------------------------------------
(* Properties of the fallback strategies *)

\* the first strategy of the field, among those of the types, whose
\* evaluation does not raise and whose selector finds elements; 0 when every
\* strategy found nothing
FirstFinding(field_key, types) ==
  LET Finding == {i \in 1..Len(SELECTORS[field_key].css_selectors) :
                    /\ SELECTORS[field_key].css_selectors[i].type \in types
                    /\ Matches(page, field_key, i)
                    /\ ~Raises(page, field_key, i)}
  IN  IF Finding = {} THEN 0 ELSE CHOOSE i \in Finding : \A j \in Finding : i <= j

\* the fields are resolved by the fallbacks alone, from elements with text
FallbacksAlone(field_key) ==
  /\ field_key \in DOMAIN scraped_data
  /\ json_ld_data = None
  /\ ~page.blank

\* C21: an exception raised while a fallback strategy is evaluated counts as
\* that strategy finding nothing and the next strategy is tried: a scalar
\* field is the text of the first strategy that finds an element without
\* raising, a list field is built from the elements of the first such list
\* strategy, the field is absent (the list empty) only when every strategy
\* found nothing, and no exception leaves the resolver.
C21_RaisingStrategyIsSkipped ==
  /\ \A field_key \in {"name", "description"} :
       FallbacksAlone(field_key)
         => scraped_data[field_key]
              = IF FirstFinding(field_key, {"css", "meta"}) = 0 THEN None
                ELSE PyStr(<<"c", "s", "s", " ",
                             DigitChar(FirstFinding(field_key, {"css", "meta"}))>>)
  /\ FallbacksAlone("steps")
       => scraped_data.steps
            = IF FirstFinding("steps", {"css_list"}) = 0 THEN PyList(<<>>)
              ELSE PyList(<<PyStr(<<"1", " ", "c", "u", "p", " ", "r",
                                    DigitChar(FirstFinding("steps", {"css_list"}))>>),
                            PyStr(<<"e", " ",
                                    DigitChar(FirstFinding("steps", {"css_list"}))>>)>>)
  /\ (pc = "done" /\ page.raising # {} /\ result.t = "raise") => NutritionRaised

\* the first strategy of the name raised, the second one found an element,
\* and the name is the text of that element
C21_Witness ==
  /\ FallbacksAlone("name")
  /\ Matches(page, "name", 1)
  /\ Raises(page, "name", 1)
  /\ Matches(page, "name", 2)
  /\ ~Raises(page, "name", 2)
  /\ scraped_data.name = PyStr(<<"c", "s", "s", " ", "2">>)

\* C22: quantity and unit are taken from whole words only.  A bare name gives
\* no quantity, no unit and the whole line as the name; a quantity followed
\* by a word that is no unit gives the quantity, no unit and the rest of the
\* line as the name.
C22_OnlyWholeWordsAreTaken ==
  /\ \A line \in BareNames :
       ParsedLine(line)
         => /\ OneIngredient
            /\ parsed_ingredients.ingredients[1].quantity = None
            /\ parsed_ingredients.ingredients[1].unit = None
            /\ parsed_ingredients.ingredients[1].name = PyStr(line)
  /\ \A parts \in CountedNames :
       ParsedLine(CountedLine(parts))
         => /\ OneIngredient
            /\ IsNumber(parsed_ingredients.ingredients[1].quantity,
                        ToInt(parts.quantity), 1)
            /\ parsed_ingredients.ingredients[1].unit = None
            /\ parsed_ingredients.ingredients[1].name = PyStr(parts.name)

-----------------------------------------------------------------------------
(* Properties of parse_duration_to_minutes, under DurSpec *)

\* C8: for all non-negative integers h and m, the machine-duration code
\* PT<h>H<m>M parses to 60*h + m minutes (PT1H30M gives 90), a minutes-only
\* code PT<m>M with m > 0 parses to m (PT45M gives 45), and the empty string
\* parses to absent.
C8_IsoCodeIsSixtyHPlusM ==
  pc = "duration_done" =>
    /\ \A h \in 0..MaxHours, m \in 0..MaxMinutes :
         duration_str = IsoHM(h, m) => minutes = PyInt(60 * h + m)
    /\ \A m \in 1..MaxMinutes : duration_str = IsoM(m) => minutes = PyInt(m)
    /\ duration_str = PyStr(<<>>) => minutes = None

C8_Witness ==
  /\ pc = "duration_done"
  /\ duration_str = IsoHM(1, 30)
  /\ minutes = PyInt(90)

\* the inputs C9 speaks of: empty, a code without component, and codes whose
\* components add up to zero minutes
EmptyInput == duration_str \in {PyStr(<<>>), None}

CodeWithoutComponent == duration_str = IsoBare

CodeAddingUpToZero ==
  \/ duration_str \in {IsoM(0), IsoH(0), IsoHM(0, 0)}
  \/ \E sec \in SecondsSamples : sec < 30 /\ duration_str = IsoS(sec)

\* C9 as stated: in each of the three cases the result is absent, never 0.
C9_ZeroIsAbsent ==
  (pc = "duration_done" /\ (EmptyInput \/ CodeWithoutComponent \/ CodeAddingUpToZero))
    => minutes = None

\* C9, amended: the result is absent when the input is empty or is a
\* machine-duration code with no hour, minute or second component, and absent
\* for a free-text phrase that totals zero; a machine-duration code whose
\* components add up to zero minutes gives the integer 0, not absent.
C9_ZeroCodeIsZero ==
  pc = "duration_done" =>
    /\ (EmptyInput \/ CodeWithoutComponent) => minutes = None
    /\ CodeAddingUpToZero => minutes = PyInt(0)
    /\ duration_str \in {TextMin(0), TextBare(0), TextHrMin(0, 0)} => minutes = None

C9_Witness ==
  /\ pc = "duration_done"
  /\ duration_str = IsoS(29)
  /\ minutes = PyInt(0)

====
